---- MODULE Spec2Model ----
(***************************************************************************)
(* Model of the conversation store (src/src/conversationHistory.js), the   *)
(* automation orchestrator (src/unnamed/part_001) and the cron scheduler   *)
(* (src/unnamed/part_002) of the WhatsApp automatic message system.        *)
(*                                                                         *)
(* Text is modelled by strings: Len, SubSeq and \o act on them as on the   *)
(* JavaScript strings of the code.                                         *)
(***************************************************************************)
EXTENDS Integers, Sequences, FiniteSets, TLC

VARIABLES
    store,      \* conversations of the persisted document: contact key -> conversation
    now,        \* Date.now(), in milliseconds
    chat,       \* the messages of the target chat held by the messaging channel
    unrecorded, \* messages sent through the channel and not yet passed to markMessageSent
    targetPhoneNumber, \* process.env.TARGET_PHONE_NUMBER
    calls,      \* the asynchronous store calls in flight: one per handler (live, text, voice)
    isReady,    \* whatsappService.isReady
    cycle,      \* the automatic cycle of each message type: where it stands, its message, its result
    stats,      \* the orchestrator's counters: messagesSent, voiceMessagesSent, errors
    lastSent,   \* lastMessageSent and lastVoiceMessageSent
    sendLog,    \* the texts handed to the channel's send operations, in order
    cyclesBegun, \* number of automatic cycles triggered so far
    clock,      \* wall-clock time in seconds since a midnight
    timers,     \* the tasks cron.schedule has created, in order of creation
    jobs,       \* CronScheduler.jobs: job name -> its task (an index into timers)
    isRunning,  \* CronScheduler.isRunning
    escaped,    \* number of callback errors that left the firing site
    probe,      \* the last call of a pure function or request: its arguments and what it returned
    env,        \* process.env as the orchestrator reads it when the process starts
    readinessPoll, \* the timer of checkWhatsAppReady: unset, armed or ended
    isAutomationInitialized \* let isAutomationInitialized

storeVars == <<store, now, chat, unrecorded, targetPhoneNumber, calls>>

cycleVars == <<isReady, cycle, stats, lastSent, sendLog, cyclesBegun>>

bootVars == <<env, readinessPoll, isAutomationInitialized>>

schedVars == <<clock, timers, jobs, isRunning, escaped, probe, bootVars>>

vars == <<store, now, chat, unrecorded, targetPhoneNumber, calls,
          isReady, cycle, stats, lastSent, sendLog, cyclesBegun,
          clock, timers, jobs, isRunning, escaped, probe,
          env, readinessPoll, isAutomationInitialized>>

----------------------------------------------------------------------------
(* Bounds of the model *)

\* retention cap per contact; 200 in conversationHistory.js:274, scaled down
maxStoredMessages == 2

\* number of messages the channel's chat may hold
MaxChat == 3

\* number of clock steps
MaxTicks == 3

\* largest limit passed to getMessages (10 and 20 in the orchestrator)
MaxLimit == 2

\* upper bound on stats.totalMessages (the counter is never decremented)
MaxTotal == 4

\* milliseconds per clock step
TickMs == 2500

\* number of automatic cycles triggered in a run
MaxRuns == 3

\* number of firings observed in a run
MaxFirings == 3

\* number of tasks cron.schedule creates in a run
MaxTimers == 2

\* largest multi-hour period below a day, in hours
MaxHours == 6

\* MESSAGE_INTERVAL_SECONDS by default
messageInterval == 10

\* VOICE_INTERVAL_SECONDS by default
voiceInterval == 240

\* the environment of a deployment that sets the keys and leaves the intervals alone
DefaultEnv ==
    [OPENAI_API_KEY |-> TRUE, ELEVENLABS_API_KEY |-> TRUE,
     messageInterval |-> messageInterval, voiceInterval |-> voiceInterval]

\* isDuplicateMessage: const timeWindow = 5000
timeWindow == 5000

Texts == {"hola"}

NonTextBody == "[Non-text message]"

\* TARGET_PHONE_NUMBER as configured: digits only, or a chat id ending in @c.us
TargetNumbers == {"51", "51@c.us"}

Digits == {"0", "1", "2", "3", "4", "5", "6", "7", "8", "9"}

IsDigit(c) == c \in Digits

\* targetPhoneNumber.replace(/\D/g, '')
RECURSIVE cleanNumber(_)
cleanNumber(phoneNumber) ==
    IF phoneNumber = "" THEN ""
    ELSE LET c == SubSeq(phoneNumber, 1, 1)
             rest == cleanNumber(SubSeq(phoneNumber, 2, Len(phoneNumber)))
         IN  IF IsDigit(c) THEN c \o rest ELSE rest

\* const cleanTargetNumber = targetPhoneNumber.replace(/\D/g, ''), for each number
\* that may be configured
cleanTargetNumber == [n \in TargetNumbers |-> cleanNumber(n)]

Keys == TargetNumbers \cup {cleanTargetNumber[n] : n \in TargetNumbers}

\* an absent id (messageId: null, id: undefined): falsy, as the empty string is
NoId == ""

\* a value used as a condition: a non-empty string is truthy, an absent one is not
truthy(value) == value # ""

\* msg.id._serialized of message number i of the chat
serializedId(i) == "wamid." \o ToString(i)

\* stats.firstMessage / stats.lastMessage before the first message: null. The code
\* tests them with !stats.firstMessage, which 0 satisfies as null does.
NullTimestamp == 0

----------------------------------------------------------------------------
(* The channel: whatsappService.getMessages *)

\* the raw shape getMessages returns for chat message number i
RawMessage(i, body, fromMe, seconds, type) ==
    [id |-> i, body |-> body, fromMe |-> fromMe, timestamp |-> seconds, type |-> type]

\* chat.fetchMessages({ limit }): the last `limit` messages of the chat
getMessages(limit) ==
    IF Len(chat) <= limit THEN chat
    ELSE SubSeq(chat, Len(chat) - limit + 1, Len(chat))

----------------------------------------------------------------------------
(* ConversationHistory: the synchronous parts *)

startsWithVoice(body) == Len(body) >= 7 /\ SubSeq(body, 1, 7) = "[Voice:"

VoiceBody(messageContent) == "[Voice: " \o messageContent \o "]"

\* a new conversation as initializeConversation creates it
NewConversation ==
    [messages |-> << >>,
     stats |-> [totalMessages |-> 0, incomingMessages |-> 0, outgoingMessages |-> 0,
                voiceMessages |-> 0, firstMessage |-> NullTimestamp, lastMessage |-> NullTimestamp]]

\* normalizeMessage(messageData, true): a message from the WhatsApp API.
\* ref is a history field (the chat message the record stands for); no operator reads it.
normalizeWhatsApp(messageData) ==
    [messageId |-> messageData.id,
     body |-> IF messageData.body = "" THEN NonTextBody ELSE messageData.body,
     from |-> IF messageData.fromMe THEN "outgoing" ELSE "incoming",
     timestamp |-> messageData.timestamp * 1000,
     isVoiceMessage |-> startsWithVoice(messageData.body) \/ messageData.type \in {"ptt", "audio"},
     source |-> "whatsapp",
     ref |-> messageData.id]

\* normalizeMessage(messageData, false): a message from our system, stamped Date.now()
normalizeSystem(messageData, dateNow) ==
    [messageId |-> NoId,
     body |-> messageData.body,
     from |-> IF messageData.from = "contact" THEN "incoming" ELSE "outgoing",
     timestamp |-> dateNow,
     isVoiceMessage |-> startsWithVoice(messageData.body) \/ messageData.type \in {"ptt", "audio"},
     source |-> "system",
     ref |-> messageData.ref]

normalizeMessage(messageData, fromWhatsApp, dateNow) ==
    IF fromWhatsApp THEN normalizeWhatsApp(messageData)
    ELSE normalizeSystem(messageData, dateNow)

Abs(x) == IF x < 0 THEN -x ELSE x

\* a duplicate check that finds no duplicate
neverDuplicate(messages, newMessage) == FALSE

\* a duplicate check whose time window includes its bound
isDuplicateWithinClosedWindow(messages, newMessage) ==
    \/ /\ newMessage.messageId # NoId
       /\ \E i \in DOMAIN messages : messages[i].messageId = newMessage.messageId
    \/ \E i \in DOMAIN messages :
          /\ Abs(messages[i].timestamp - newMessage.timestamp) <= timeWindow
          /\ messages[i].body = newMessage.body
          /\ messages[i].from = newMessage.from

isDuplicateMessage(messages, newMessage) ==
    \/ /\ newMessage.messageId # NoId
       /\ \E i \in DOMAIN messages : messages[i].messageId = newMessage.messageId
    \/ \E i \in DOMAIN messages :
          /\ Abs(messages[i].timestamp - newMessage.timestamp) < timeWindow
          /\ messages[i].body = newMessage.body
          /\ messages[i].from = newMessage.from

updateConversationStats(st, message) ==
    [totalMessages |-> st.totalMessages + 1,
     incomingMessages |-> st.incomingMessages + (IF message.from = "incoming" THEN 1 ELSE 0),
     outgoingMessages |-> st.outgoingMessages + (IF message.from = "incoming" THEN 0 ELSE 1),
     voiceMessages |-> st.voiceMessages + (IF message.isVoiceMessage THEN 1 ELSE 0),
     firstMessage |-> IF st.firstMessage = NullTimestamp \/ message.timestamp < st.firstMessage
                      THEN message.timestamp ELSE st.firstMessage,
     lastMessage |-> IF st.lastMessage = NullTimestamp \/ message.timestamp > st.lastMessage
                     THEN message.timestamp ELSE st.lastMessage]

\* messages.slice(-n): -0 is 0, so slice(-0) is the whole array
sliceLast(messages, n) ==
    IF n = 0 \/ Len(messages) <= n THEN messages
    ELSE SubSeq(messages, Len(messages) - n + 1, Len(messages))

\* insertion of m behind every element that is not later than it (stable)
RECURSIVE insertByTimestamp(_, _)
insertByTimestamp(sorted, m) ==
    IF sorted = << >> THEN <<m>>
    ELSE IF m.timestamp < sorted[Len(sorted)].timestamp
         THEN Append(insertByTimestamp(SubSeq(sorted, 1, Len(sorted) - 1), m), sorted[Len(sorted)])
         ELSE Append(sorted, m)

\* messages.sort((a, b) => a.timestamp - b.timestamp), a stable sort
RECURSIVE sortByTimestamp(_)
sortByTimestamp(messages) ==
    IF messages = << >> THEN << >>
    ELSE insertByTimestamp(sortByTimestamp(SubSeq(messages, 1, Len(messages) - 1)),
                           messages[Len(messages)])

\* addMessage, from the duplicate check to the sort: the conversation it saves
\* and the value it returns (null for a duplicate)
trimMessages(messages) ==
    IF Len(messages) > maxStoredMessages THEN sliceLast(messages, maxStoredMessages)
    ELSE messages

addToConversation(conversation, normalizedMessage) ==
    IF isDuplicateMessage(conversation.messages, normalizedMessage)
    THEN [conversation |-> conversation, added |-> FALSE]
    ELSE [conversation |->
             [messages |-> sortByTimestamp(trimMessages(Append(conversation.messages, normalizedMessage))),
              stats |-> updateConversationStats(conversation.stats, normalizedMessage)],
          added |-> TRUE]

\* the conversation addMessage works on: initializeConversation creates a missing one
conversationOf(conversations, phoneNumber) ==
    IF phoneNumber \in DOMAIN conversations THEN conversations[phoneNumber]
    ELSE NewConversation

\* syncFromWhatsApp: addMessage for each message of the batch in timestamp order;
\* the conversation at the end and the count of added messages
RECURSIVE syncInto(_, _)
syncInto(conversation, sortedMessages) ==
    IF sortedMessages = << >> THEN [conversation |-> conversation, count |-> 0]
    ELSE LET r == addToConversation(conversation, normalizeWhatsApp(Head(sortedMessages)))
             rest == syncInto(r.conversation, Tail(sortedMessages))
         IN  [conversation |-> rest.conversation,
              count |-> rest.count + (IF r.added THEN 1 ELSE 0)]

\* whatsappMessages.sort((a, b) => a.timestamp - b.timestamp)
sortBatch(whatsappMessages) == sortByTimestamp(whatsappMessages)

\* the messageData markMessageSent builds
sentMessageData(messageContent, voiceMessage, ref) ==
    [body |-> IF voiceMessage THEN VoiceBody(messageContent) ELSE messageContent,
     from |-> "me",
     type |-> IF voiceMessage THEN "voice" ELSE "chat",
     isVoiceMessage |-> voiceMessage,
     ref |-> ref]

\* data.conversations[phoneNumber] = conversation
withConversation(conversations, phoneNumber, conversation) ==
    [k \in DOMAIN conversations \cup {phoneNumber} |->
        IF k = phoneNumber THEN conversation ELSE conversations[k]]

----------------------------------------------------------------------------
(* The store operations as the orchestrator calls them, each run to         *)
(* completion with no other call in flight                                 *)

\* the handlers whose store calls may be in flight together: the incomingMessage
\* handler, a text cycle (sendAutomaticMessage), a voice cycle (sendAutomaticVoiceMessage)
Handlers == {"live", "text", "voice"}

Cycles == {"text", "voice"}

IdleCall ==
    [pc |-> "idle", key |-> "", queue |-> << >>, fromWhatsApp |-> FALSE,
     data |-> << >>, handled |-> 0, added |-> {}, seen |-> {}]

\* the periods a deployment may configure (MESSAGE_INTERVAL_SECONDS, /schedule/update):
\* sub-minute periods that divide the minute and that do not, whole minutes, periods
\* between a minute and an hour that are no whole minutes, the hour, whole hours, the
\* day, and a period beyond the hour that is no whole hour
Intervals ==
    {1, 5, 7, 10, 30, 45, 59} \cup {60, 90, 300, 3600, 5400, 86400}
        \cup {H * 3600 : H \in 2..MaxHours}

\* the times at which the jobs may get scheduled: 20:00:00, 23:59:45
StartTimes == {72000, 86385}

\* no pure function called yet
NoProbe == [op |-> "none", args |-> << >>, result |-> << >>]

NoResult == [kind |-> "none", error |-> "", response |-> "none"]

\* what a cycle finds when it begins, remembered while the cycle is in flight by the
\* specification that runs the cycles one after the other
NoSnapshot == [store |-> << >>, messagesSent |-> 0, voiceMessagesSent |-> 0,
               lastSent |-> [h \in Cycles |-> ""]]

IdleCycle ==
    [pc |-> "Idle", trigger |-> "none", syncError |-> "", message |-> "",
     generatorError |-> "", ref |-> "", result |-> NoResult, before |-> NoSnapshot]

Init ==
    /\ store = << >>
    /\ now = TickMs
    /\ chat = << >>
    /\ unrecorded = {}
    /\ targetPhoneNumber \in TargetNumbers
    /\ calls = [h \in Handlers |-> IdleCall]
    /\ isReady = FALSE
    /\ cycle = [h \in Cycles |-> IdleCycle]
    /\ stats = [messagesSent |-> 0, voiceMessagesSent |-> 0, errors |-> 0]
    /\ lastSent = [text |-> "", voice |-> ""]
    /\ sendLog = << >>
    /\ cyclesBegun = 0
    /\ clock = 0
    /\ timers = << >>
    /\ jobs = << >>
    /\ isRunning = FALSE
    /\ escaped = 0
    /\ probe = NoProbe
    /\ env = DefaultEnv
    /\ readinessPoll = "unset"
    /\ isAutomationInitialized = FALSE

\* time passes
Tick ==
    /\ now < MaxTicks * TickMs
    /\ now' = now + TickMs
    /\ UNCHANGED <<store, chat, unrecorded, targetPhoneNumber, calls, cycleVars, schedVars>>

\* the contact writes a message: the channel's chat holds it, stamped in epoch seconds
Receive(body) ==
    /\ Len(chat) < MaxChat
    /\ chat' = Append(chat, RawMessage(serializedId(Len(chat) + 1), body, FALSE, now \div 1000, "chat"))
    /\ UNCHANGED <<store, now, unrecorded, targetPhoneNumber, calls, cycleVars, schedVars>>

\* whatsappService.sendMessage / sendVoiceMessage inside a cycle: the chat holds the
\* sent message; a voice note (ptt) has no text body
Send(text, voice) ==
    /\ Len(chat) < MaxChat
    /\ unrecorded = {}
    /\ chat' = Append(chat, RawMessage(serializedId(Len(chat) + 1), IF voice THEN "" ELSE text, TRUE,
                                       now \div 1000, IF voice THEN "ptt" ELSE "chat"))
    /\ unrecorded' = {[text |-> text, voice |-> voice, ref |-> serializedId(Len(chat) + 1)]}
    /\ UNCHANGED <<store, now, targetPhoneNumber, calls, cycleVars, schedVars>>

\* the incomingMessage handler: addMessage(cleanTargetNumber, messageData, true)
\* for message i of the chat, a message of the contact
AddMessage(i) ==
    LET phoneNumber == cleanTargetNumber[targetPhoneNumber]
        r == addToConversation(conversationOf(store, phoneNumber),
                               normalizeMessage(chat[i], TRUE, now))
    IN  /\ ~chat[i].fromMe
        /\ r.conversation.stats.totalMessages <= MaxTotal
        /\ store' = withConversation(store, phoneNumber, r.conversation)
        /\ UNCHANGED <<now, chat, unrecorded, targetPhoneNumber, calls, cycleVars, schedVars>>

\* syncFromWhatsApp(targetPhoneNumber, whatsappMessages); an empty batch returns 0
\* before the conversation is initialized
SyncFromWhatsApp(whatsappMessages) ==
    LET r == syncInto(conversationOf(store, targetPhoneNumber), sortBatch(whatsappMessages))
    IN  /\ r.conversation.stats.totalMessages <= MaxTotal
        /\ store' = IF whatsappMessages = << >> THEN store
                    ELSE withConversation(store, targetPhoneNumber, r.conversation)
        /\ UNCHANGED <<now, chat, unrecorded, targetPhoneNumber, calls, cycleVars, schedVars>>

\* markMessageSent(targetPhoneNumber, messageContent, voiceMessage) for a sent message
MarkMessageSent(sent) ==
    LET r == addToConversation(conversationOf(store, targetPhoneNumber),
                               normalizeMessage(sentMessageData(sent.text, sent.voice, sent.ref),
                                                FALSE, now))
    IN  /\ r.conversation.stats.totalMessages <= MaxTotal
        /\ store' = withConversation(store, targetPhoneNumber, r.conversation)
        /\ unrecorded' = unrecorded \ {sent}
        /\ UNCHANGED <<now, chat, targetPhoneNumber, calls, cycleVars, schedVars>>

Next ==
    \/ Tick
    \/ \E body \in Texts : Receive(body)
    \/ \E text \in Texts, voice \in BOOLEAN : Send(text, voice)
    \/ \E i \in DOMAIN chat : AddMessage(i)
    \/ \E limit \in 0..MaxLimit : SyncFromWhatsApp(getMessages(limit))
    \/ \E sent \in unrecorded : MarkMessageSent(sent)

Spec == Init /\ [][Next]_vars

\* the store under its callers as the application makes the calls: the sync fetches
\* with the limit the cycles use
NextLive ==
    \/ Tick
    \/ \E body \in Texts : Receive(body)
    \/ \E text \in Texts, voice \in BOOLEAN : Send(text, voice)
    \/ \E i \in DOMAIN chat : AddMessage(i)
    \/ SyncFromWhatsApp(getMessages(MaxLimit))
    \/ \E sent \in unrecorded : MarkMessageSent(sent)

SpecLive == Init /\ [][NextLive]_vars

----------------------------------------------------------------------------
(* The store calls step by step: every await of addMessage, syncFromWhatsApp  *)
(* and initializeConversation is a point where another handler may run.       *)
(* pc: idle, sync_load / sync_save (initializeConversation of syncFromWhatsApp),*)
(* init_load / init_save (initializeConversation of addMessage), load          *)
(* (loadHistory of addMessage), commit (duplicate check to saveHistory),       *)
(* send (the cycle's send step), done.                                         *)

\* the contact's message i reaches the incomingMessage handler, which calls
\* addMessage(cleanTargetNumber, messageData, true)
StartLive ==
    LET c == calls["live"]
        i == c.handled + 1
    IN  /\ c.pc = "idle"
        /\ i <= Len(chat)
        /\ calls' = [calls EXCEPT !["live"] =
               IF chat[i].fromMe THEN [c EXCEPT !.handled = i]
               ELSE [c EXCEPT !.pc = "init_load", !.key = cleanTargetNumber[targetPhoneNumber],
                              !.queue = <<chat[i]>>, !.fromWhatsApp = TRUE, !.handled = i]]
        /\ UNCHANGED <<store, now, chat, unrecorded, targetPhoneNumber, cycleVars, schedVars>>

\* a cycle begins: getMessages(targetPhoneNumber, limit), then syncFromWhatsApp,
\* which returns at once for an empty batch
StartCycle(h) ==
    LET c == calls[h]
        whatsappMessages == getMessages(MaxLimit)
    IN  /\ h \in Cycles
        /\ c.pc = "idle"
        /\ calls' = [calls EXCEPT ![h] =
               IF whatsappMessages = << >> THEN [c EXCEPT !.pc = "send"]
               ELSE [c EXCEPT !.pc = "sync_load", !.key = targetPhoneNumber,
                              !.queue = sortBatch(whatsappMessages), !.fromWhatsApp = TRUE]]
        /\ UNCHANGED <<store, now, chat, unrecorded, targetPhoneNumber, cycleVars, schedVars>>

\* initializeConversation: const data = await this.loadHistory()
InitLoad(h) ==
    LET c == calls[h]
        exists == c.key \in DOMAIN store
    IN  /\ c.pc \in {"sync_load", "init_load"}
        /\ calls' = [calls EXCEPT ![h] =
               [c EXCEPT !.data = store,
                         !.pc = IF c.pc = "sync_load"
                                THEN (IF exists THEN "init_load" ELSE "sync_save")
                                ELSE (IF exists THEN "load" ELSE "init_save")]]
        /\ UNCHANGED <<store, now, chat, unrecorded, targetPhoneNumber, cycleVars, schedVars>>

\* initializeConversation: the new conversation is put into the loaded document
\* and the document is written: await this.saveHistory(data)
InitSave(h) ==
    LET c == calls[h]
    IN  /\ c.pc \in {"sync_save", "init_save"}
        /\ store' = withConversation(c.data, c.key, NewConversation)
        /\ calls' = [calls EXCEPT ![h] =
               [c EXCEPT !.data = << >>,
                         !.pc = IF c.pc = "sync_save" THEN "init_load" ELSE "load"]]
        /\ UNCHANGED <<now, chat, unrecorded, targetPhoneNumber, cycleVars, schedVars>>

\* addMessage: const data = await this.loadHistory()
Load(h) ==
    LET c == calls[h]
    IN  /\ c.pc = "load"
        /\ calls' = [calls EXCEPT ![h] = [c EXCEPT !.data = store, !.pc = "commit"]]
        /\ UNCHANGED <<store, now, chat, unrecorded, targetPhoneNumber, cycleVars, schedVars>>

\* where a handler continues when its addMessage has returned
afterAddMessage(h, c) ==
    IF Len(c.queue) > 1 THEN "init_load"
    ELSE IF h = "live" THEN "idle"
    ELSE IF c.fromWhatsApp THEN "send"
    ELSE "done"

\* addMessage from the duplicate check to saveHistory(data): the loaded document
\* with the changed conversation replaces the file. A conversation missing from
\* the loaded document raises a TypeError, which addMessage catches (returns null).
Commit(h) ==
    LET c == calls[h]
        messageData == Head(c.queue)
        normalizedMessage == normalizeMessage(messageData, c.fromWhatsApp, now)
        r == addToConversation(c.data[c.key], normalizedMessage)
        saves == c.key \in DOMAIN c.data /\ r.added
    IN  /\ c.pc = "commit"
        /\ store' = IF saves THEN withConversation(c.data, c.key, r.conversation) ELSE store
        /\ calls' = [calls EXCEPT ![h] =
               [c EXCEPT !.pc = afterAddMessage(h, c),
                         !.queue = Tail(c.queue),
                         !.data = << >>,
                         !.added = IF saves
                                   THEN c.added \cup {[key |-> c.key, message |-> normalizedMessage]}
                                   ELSE c.added,
                         !.seen = c.seen \cup {normalizedMessage.ref}]]
        /\ UNCHANGED <<now, chat, unrecorded, targetPhoneNumber, cycleVars, schedVars>>

\* the cycle sends its message through the channel and then calls markMessageSent
CycleSend(h, text) ==
    LET c == calls[h]
        voice == (h = "voice")
        ref == serializedId(Len(chat) + 1)
    IN  /\ c.pc = "send"
        /\ Len(chat) < MaxChat
        /\ chat' = Append(chat, RawMessage(ref, IF voice THEN "" ELSE text, TRUE,
                                           now \div 1000, IF voice THEN "ptt" ELSE "chat"))
        /\ calls' = [calls EXCEPT ![h] =
               [c EXCEPT !.pc = "init_load", !.key = targetPhoneNumber,
                         !.queue = <<sentMessageData(text, voice, ref)>>,
                         !.fromWhatsApp = FALSE]]
        /\ UNCHANGED <<store, now, unrecorded, targetPhoneNumber, cycleVars, schedVars>>

NextConc ==
    \/ \E body \in Texts : chat = << >> /\ Receive(body)
    \/ StartLive
    \/ \E h \in Cycles : StartCycle(h)
    \/ \E h \in Handlers : InitLoad(h) \/ InitSave(h) \/ Load(h) \/ Commit(h)
    \/ \E h \in Cycles, text \in Texts : CycleSend(h, text)

SpecConc == Init /\ [][NextConc]_vars

----------------------------------------------------------------------------
(* MessageGenerator.validateMessage *)

UpperCase == "ABCDEFGHIJKLMNOPQRSTUVWXYZÁÉÍÓÚÑ"

LowerCase == "abcdefghijklmnopqrstuvwxyzáéíóúñ"

charToLower(c) ==
    IF \E i \in 1..Len(UpperCase) : SubSeq(UpperCase, i, i) = c
    THEN LET i == CHOOSE k \in 1..Len(UpperCase) : SubSeq(UpperCase, k, k) = c
         IN  SubSeq(LowerCase, i, i)
    ELSE c

\* message.toLowerCase(): each character in lower case, the two halves of a text
\* one after the other
RECURSIVE toLowerCase(_)
toLowerCase(message) ==
    IF message = "" THEN ""
    ELSE IF Len(message) = 1 THEN charToLower(message)
    ELSE toLowerCase(SubSeq(message, 1, Len(message) \div 2))
         \o toLowerCase(SubSeq(message, Len(message) \div 2 + 1, Len(message)))

\* text.includes(part)
includes(text, part) ==
    \E i \in 1..(Len(text) - Len(part) + 1) : SubSeq(text, i, i + Len(part) - 1) = part

petNames ==
    <<"mi amor", "amor", "mi dulce crema de leche", "mi chocolate de leche", "amorcito",
      "vida mía", "terroncito de azúcar">>

\* a validator with no forbidden topic
noForbiddenWords == << >>

forbiddenWords == <<"hijos", "niños", "peques", "children", "kids", "hijo", "niño">>

forbiddenNames == <<"dulce elena", "shirley", "elena">>

aiTerms == <<"ai", "artificial", "inteligencia artificial", "bot", "generado", "automated">>

\* list.some(x => lowerMessage.includes(x))
includesSome(lowerMessage, list) == \E i \in DOMAIN list : includes(lowerMessage, list[i])

\* the first word of the list that the message includes (the for loop returns on it)
firstIncluded(lowerMessage, list) ==
    list[CHOOSE i \in DOMAIN list :
            /\ includes(lowerMessage, list[i])
            /\ \A j \in 1..(i - 1) : ~includes(lowerMessage, list[j])]

Invalid(reason) == [valid |-> FALSE, reason |-> reason]

\* a validator that wants a pet name in every message
alwaysNeedsPetName(message) == TRUE

\* message.length > 10: the messages the pet-name rule applies to
needsPetName(message) == Len(message) > 10

validateMessage(message) ==
    LET lowerMessage == toLowerCase(message)
        hasPetName == includesSome(lowerMessage, petNames)
    IN  IF message = "" THEN Invalid("Message is empty or not a string")
        ELSE IF Len(message) > 300 THEN Invalid("Message is too long for Godoy's style")
        ELSE IF Len(message) < 2 THEN Invalid("Message is too short")
        ELSE IF includesSome(lowerMessage, forbiddenWords)
             THEN Invalid("Message contains forbidden topic: "
                          \o firstIncluded(lowerMessage, forbiddenWords))
        ELSE IF includes(lowerMessage, "dulce") /\ ~hasPetName
             THEN Invalid("Should use pet names instead of her real name")
        ELSE IF includesSome(lowerMessage, forbiddenNames)
             THEN Invalid("Should use pet names instead of her real name")
        ELSE IF includesSome(lowerMessage, aiTerms)
             THEN Invalid("Message contains AI-related terms")
        ELSE IF ~hasPetName /\ needsPetName(message)
             THEN Invalid("Message should include a pet name (mi amor, mi dulce crema de leche, etc.)")
        ELSE [valid |-> TRUE, reason |-> ""]

----------------------------------------------------------------------------
(* The automatic cycles: sendAutomaticMessage and sendAutomaticVoiceMessage,   *)
(* triggered by the scheduled callbacks and by the routes /send-auto-message   *)
(* and /send-auto-voice. pc: Idle, Syncing, Generating, Synthesizing (voice),  *)
(* Sending, Recording.                                                         *)

Triggers == {"scheduled", "manual"}

\* what generateVoiceMessage may return as result.message: nothing, a text the
\* validator accepts, a text without a pet name, a text with a forbidden topic
GeneratedTexts == {"", "Hola mi amor", "Hola bonita", "Y los peques?"}

\* completion.choices[0].message.content as the service may answer it: nothing, a text
\* with blanks around it, a quoted text, a text with a forbidden topic
Contents ==
    {"", " Como está mi terroncito de azúcar? ", "'Hola bonita :)'", "Cómo están los peques?"}

\* the message of the error the completion request may be rejected with
RequestErrors == {"Request timed out."}

\* openai.chat.completions.create resolves with a content or rejects with an error
Completions ==
    [ok : {TRUE}, content : Contents, error : {""}]
        \cup [ok : {FALSE}, content : {""}, error : RequestErrors]

Whitespace == {" "}

Quotes == {"\"", "'"}

RECURSIVE trimStart(_)
trimStart(str) ==
    IF Len(str) > 0 /\ SubSeq(str, 1, 1) \in Whitespace
    THEN trimStart(SubSeq(str, 2, Len(str)))
    ELSE str

RECURSIVE trimEnd(_)
trimEnd(str) ==
    IF Len(str) > 0 /\ SubSeq(str, Len(str), Len(str)) \in Whitespace
    THEN trimEnd(SubSeq(str, 1, Len(str) - 1))
    ELSE str

\* String.prototype.trim
trim(str) == trimEnd(trimStart(str))

\* generatedMessage.replace(/^["']|["']$/g, ""): one quote at the start and one at
\* the end, the second looked for in what the first replacement left to scan
stripQuotes(str) ==
    LET first == Len(str) > 0 /\ SubSeq(str, 1, 1) \in Quotes
        last  == Len(str) > (IF first THEN 1 ELSE 0)
                    /\ SubSeq(str, Len(str), Len(str)) \in Quotes
    IN  SubSeq(str, IF first THEN 2 ELSE 1, IF last THEN Len(str) - 1 ELSE Len(str))

\* the fallback messages of generateMessage's catch block
fallbackMessages ==
    <<"Hola bonita :)", "Que tal tu día?", "Ya comiste? :o", "Descansa bien sii",
      "Cómo están los peques?", "No trabajes mucho jajaja", "Te extraño :/",
      "Que haces? :)", "Buenos días :)", "Cuídate mucho sii", "Te mando un abrazo fuerte",
      "Como está mi terroncito de azúcar?",
      "Espero que estés teniendo un buen día mi amor", "Te mando un beso volado",
      "Eres lo mejor que me ha pasado", "Siempre estás en mis pensamientos">>

\* Math.floor(Math.random() * fallbackMessages.length), counted from 1: a fallback
\* without a pet name, one with a forbidden topic, one with a pet name
FallbackChoices == {1, 5, 12}

\* MessageGenerator.generateMessage: the cleaned content of the completion, or, when
\* the request fails, a fallback message together with the error's message
generateMessage(completion, choice) ==
    IF completion.ok
    THEN [message |-> trim(stripQuotes(trim(completion.content))),
          model |-> "model", error |-> ""]
    ELSE [message |-> fallbackMessages[choice], model |-> "fallback",
          error |-> completion.error]

\* what generateMessage returns for each answer of the service and each random choice
generated ==
    [completion \in Completions, choice \in FallbackChoices |->
        generateMessage(completion, choice)]

\* generateVoiceMessage resolves with a text
generateVoiceMessage(text) == [message |-> text, model |-> "model", error |-> ""]

\* every text a cycle may hold
CycleTexts ==
    GeneratedTexts
        \cup {generated[completion, choice].message :
                 completion \in Completions, choice \in FallbackChoices}

\* messageGenerator.validateMessage(result.message) for each text a cycle may hold
verdict == [message \in CycleTexts |-> validateMessage(message)]

\* new Error('Failed to generate message') / ('Failed to generate message for voice')
generationError(h) ==
    IF h = "voice" THEN "Failed to generate message for voice" ELSE "Failed to generate message"

\* new Error(`Invalid message: ${validation.reason}`) /
\* new Error(`Invalid message for voice: ${validation.reason}`)
validationError(h, validation) ==
    (IF h = "voice" THEN "Invalid message for voice: " ELSE "Invalid message: ")
        \o validation.reason

\* a cycle that goes on whatever the validator answered
ignoresValidation(validation) == TRUE

\* if (!validation.valid) throw: the cycle goes on to send only with a valid text
passesValidation(validation) == validation.valid

\* the catch block of the cycle (stats.errors++; throw error) and its caller: the
\* scheduled callback logs the error, the route counts it again and answers 500
failCycle(h, c, error) ==
        /\ cycle' = [cycle EXCEPT ![h] =
                        [c EXCEPT !.pc = "Idle", !.before = NoSnapshot, !.syncError = "",
                                  !.result = [kind |-> "error", error |-> error,
                                              response |-> IF c.trigger = "manual" THEN "500"
                                                           ELSE "logged"]]]
        /\ stats' = [stats EXCEPT !.errors = @ + (IF c.trigger = "manual" THEN 2 ELSE 1)]

\* the store, the sent counters and the last-sent records as they are now
snapshot ==
    [store |-> store, messagesSent |-> stats.messagesSent,
     voiceMessagesSent |-> stats.voiceMessagesSent, lastSent |-> lastSent]

\* a send whose failure does not reach the cycle
neverRejected(delivered) == FALSE

\* await sendMessage(...) rejects: the statements after it are skipped
sendRejected(delivered) == ~delivered

\* a cycle that does not look at the channel's readiness
alwaysReady == TRUE

\* whatsappService && whatsappService.isReady
serviceReady == isReady

\* a tick of the job or a request to the route. With the channel not ready the
\* scheduled callback skips the cycle and the function called by the route returns null.
beginCycle(h, trigger, before) ==
    /\ cycle[h].pc = "Idle"
    /\ cyclesBegun < MaxRuns
    /\ cyclesBegun' = cyclesBegun + 1
    /\ cycle' = [cycle EXCEPT ![h] =
                    IF serviceReady
                    THEN [IdleCycle EXCEPT !.pc = "Syncing", !.trigger = trigger,
                                           !.before = before]
                    ELSE [IdleCycle EXCEPT !.trigger = trigger,
                                           !.result = [kind |-> "notReady", error |-> "",
                                                       response |-> IF trigger = "manual"
                                                                    THEN "200" ELSE "skipped"]]]
    /\ UNCHANGED <<storeVars, isReady, stats, lastSent, sendLog, schedVars>>

BeginCycle(h, trigger) == beginCycle(h, trigger, NoSnapshot)

\* a cycle that begins while no other cycle is in flight
BeginCycleAlone(h, trigger) ==
    /\ \A g \in Cycles : cycle[g].pc = "Idle"
    /\ beginCycle(h, trigger, snapshot)

\* a sync block without its own catch: a failed fetch reaches the cycle's catch block
syncRethrows(fetched) == ~fetched

\* try { getMessages; syncFromWhatsApp } catch (error) { logger.warn(...) }: no
\* error leaves the block
syncThrows(fetched) == FALSE

\* getMessages(targetPhoneNumber, 10) and syncFromWhatsApp; a failure is logged and
\* the cycle continues. getMessages throws when the channel is not ready.
SyncStep(h, fetched) ==
    LET whatsappMessages == getMessages(MaxLimit)
        r == syncInto(conversationOf(store, targetPhoneNumber), sortBatch(whatsappMessages))
        c == [cycle[h] EXCEPT !.syncError = IF fetched THEN ""
                                            ELSE "getMessages failed"]
    IN  /\ cycle[h].pc = "Syncing"
        /\ fetched => isReady
        /\ r.conversation.stats.totalMessages <= MaxTotal
        /\ store' = IF fetched /\ whatsappMessages # << >>
                    THEN withConversation(store, targetPhoneNumber, r.conversation)
                    ELSE store
        /\ IF syncThrows(fetched)
           THEN failCycle(h, c, c.syncError)
           ELSE /\ cycle' = [cycle EXCEPT ![h] = [c EXCEPT !.pc = "Generating"]]
                /\ UNCHANGED stats
        /\ UNCHANGED <<now, chat, unrecorded, targetPhoneNumber, calls,
                       isReady, lastSent, sendLog, cyclesBegun, schedVars>>

\* generateMessage / generateVoiceMessage has returned result; the checks that follow
GenerateStep(h, result) ==
    LET message == result.message
        validation == verdict[message]
        c == [cycle[h] EXCEPT !.generatorError = result.error]
    IN  /\ cycle[h].pc = "Generating"
        /\ IF message = ""
           THEN /\ failCycle(h, c, generationError(h))
                /\ UNCHANGED lastSent
           ELSE IF ~passesValidation(validation)
           THEN /\ failCycle(h, [c EXCEPT !.message = message],
                             validationError(h, validation))
                /\ UNCHANGED lastSent
           ELSE /\ cycle' = [cycle EXCEPT ![h] =
                                [c EXCEPT !.message = message,
                                          !.pc = IF h = "voice" THEN "Synthesizing"
                                                 ELSE "Sending"]]
                /\ UNCHANGED <<stats, lastSent>>
        /\ UNCHANGED <<storeVars, isReady, sendLog, cyclesBegun, schedVars>>

\* generateVoiceMessage rejects (generateMessage falls back instead)
GenerateFails(h, error) ==
    /\ cycle[h].pc = "Generating"
    /\ h = "voice"
    /\ failCycle(h, [cycle[h] EXCEPT !.generatorError = error], error)
    /\ UNCHANGED <<storeVars, isReady, lastSent, sendLog, cyclesBegun, schedVars>>

\* voiceGenerator.generateVoiceForMessage: an audio file, or an error of the service
SynthesizeStep(h, success) ==
    /\ cycle[h].pc = "Synthesizing"
    /\ IF success
       THEN /\ cycle' = [cycle EXCEPT ![h].pc = "Sending"]
            /\ UNCHANGED stats
       ELSE failCycle(h, cycle[h], "Failed to generate voice audio")
    /\ UNCHANGED <<storeVars, isReady, lastSent, sendLog, cyclesBegun, schedVars>>

\* whatsappService.sendMessage / sendVoiceMessage: the chat holds the sent message
\* (a voice note has no text body), or the channel throws
SendStep(h, delivered) ==
    LET c == cycle[h]
        id == serializedId(Len(chat) + 1)
    IN  /\ c.pc = "Sending"
        /\ delivered => isReady /\ Len(chat) < MaxChat
        /\ IF delivered
           THEN /\ chat' = Append(chat, RawMessage(id, IF h = "voice" THEN "" ELSE c.message,
                                                   TRUE, now \div 1000,
                                                   IF h = "voice" THEN "ptt" ELSE "chat"))
                /\ sendLog' = Append(sendLog, c.message)
           ELSE UNCHANGED <<chat, sendLog>>
        /\ IF sendRejected(delivered)
           THEN failCycle(h, c, "WhatsApp client is not ready")
           ELSE /\ cycle' = [cycle EXCEPT ![h].pc = "Recording",
                                          ![h].ref = IF delivered THEN id ELSE ""]
                /\ UNCHANGED stats
        /\ UNCHANGED <<store, now, unrecorded, targetPhoneNumber, calls,
                       isReady, lastSent, cyclesBegun, schedVars>>

\* markMessageSent, then the counters and lastMessageSent / lastVoiceMessageSent
RecordStep(h) ==
    LET c == cycle[h]
        r == addToConversation(conversationOf(store, targetPhoneNumber),
                               normalizeMessage(sentMessageData(c.message, h = "voice", c.ref),
                                                FALSE, now))
    IN  /\ c.pc = "Recording"
        /\ r.conversation.stats.totalMessages <= MaxTotal
        /\ store' = withConversation(store, targetPhoneNumber, r.conversation)
        /\ stats' = IF h = "voice" THEN [stats EXCEPT !.voiceMessagesSent = @ + 1]
                    ELSE [stats EXCEPT !.messagesSent = @ + 1]
        /\ lastSent' = [lastSent EXCEPT ![h] = c.message]
        /\ cycle' = [cycle EXCEPT ![h] =
                        [c EXCEPT !.pc = "Idle", !.before = NoSnapshot, !.syncError = "",
                                  !.result = [kind |-> "sent", error |-> "",
                                              response |-> IF c.trigger = "manual" THEN "200"
                                                           ELSE "logged"]]]
        /\ UNCHANGED <<now, chat, unrecorded, targetPhoneNumber, calls,
                       isReady, sendLog, cyclesBegun, schedVars>>

\* client.on('ready') / client.on('disconnected')
SetReady(ready) ==
    /\ isReady # ready
    /\ isReady' = ready
    /\ UNCHANGED <<storeVars, cycle, stats, lastSent, sendLog, cyclesBegun, schedVars>>

NextCycle ==
    \/ \E body \in Texts : chat = << >> /\ Receive(body)
    \/ \E ready \in BOOLEAN : SetReady(ready)
    \/ \E h \in Cycles, trigger \in Triggers : BeginCycle(h, trigger)
    \/ \E h \in Cycles, fetched \in BOOLEAN : SyncStep(h, fetched)
    \/ \E completion \in Completions, choice \in FallbackChoices :
          GenerateStep("text", generated[completion, choice])
    \/ \E message \in GeneratedTexts : GenerateStep("voice", generateVoiceMessage(message))
    \/ \E error \in RequestErrors : GenerateFails("voice", error)
    \/ \E h \in Cycles, success \in BOOLEAN : SynthesizeStep(h, success)
    \/ \E h \in Cycles, delivered \in BOOLEAN : SendStep(h, delivered)
    \/ \E h \in Cycles : RecordStep(h)

SpecCycle == Init /\ [][NextCycle]_vars

\* the cycles one after the other, each remembering what it found when it began
NextSerial ==
    \/ \E body \in Texts : chat = << >> /\ Receive(body)
    \/ \E ready \in BOOLEAN : SetReady(ready)
    \/ \E h \in Cycles, trigger \in Triggers : BeginCycleAlone(h, trigger)
    \/ \E h \in Cycles, fetched \in BOOLEAN : SyncStep(h, fetched)
    \/ \E completion \in Completions, choice \in FallbackChoices :
          GenerateStep("text", generated[completion, choice])
    \/ \E message \in GeneratedTexts : GenerateStep("voice", generateVoiceMessage(message))
    \/ \E error \in RequestErrors : GenerateFails("voice", error)
    \/ \E h \in Cycles, success \in BOOLEAN : SynthesizeStep(h, success)
    \/ \E h \in Cycles, delivered \in BOOLEAN : SendStep(h, delivered)
    \/ \E h \in Cycles : RecordStep(h)

SpecSerial == Init /\ [][NextSerial]_vars

----------------------------------------------------------------------------
(* CronScheduler: the conversion of a period into a cron expression *)

\* Math.round(seconds / 60)
roundMinutes(seconds) == (seconds + 30) \div 60

standardHours == <<1, 2, 3, 4, 6, 8, 12, 24>>

\* standardHours.reduce((prev, curr) =>
\*     Math.abs(curr - hours) < Math.abs(prev - hours) ? curr : prev)
RECURSIVE closestOf(_, _, _)
closestOf(list, prev, hours) ==
    IF list = << >> THEN prev
    ELSE closestOf(Tail(list),
                   IF Abs(Head(list) - hours) < Abs(prev - hours) THEN Head(list) ELSE prev,
                   hours)

closestStandardHours(hours) == closestOf(Tail(standardHours), Head(standardHours), hours)

\* hoursToCronExpression(hours), hours >= 1
RECURSIVE hoursToCronExpression(_)
hoursToCronExpression(hours) ==
    IF hours = 1 THEN "0 * * * *"
    ELSE IF hours \in {2, 3, 4, 6, 8, 12} THEN "0 */" \o ToString(hours) \o " * * *"
    ELSE IF hours = 24 THEN "0 0 * * *"
    ELSE IF hours <= 24 /\ 24 % hours = 0 THEN "0 */" \o ToString(hours) \o " * * *"
    ELSE IF hours * 60 < 60 THEN "*/" \o ToString(hours * 60) \o " * * * *"
    ELSE hoursToCronExpression(closestStandardHours(hours))

\* secondsToCronExpression(seconds), seconds >= 1 (it throws below 1)
secondsToCronExpression(seconds) ==
    LET minutes == seconds \div 60
        remainingSeconds == seconds % 60
    IN  IF seconds < 60 THEN "*/" \o ToString(seconds) \o " * * * * *"
        ELSE IF remainingSeconds = 0 /\ minutes < 60
             THEN "0 */" \o ToString(minutes) \o " * * * * *"
        ELSE IF seconds <= 3600 THEN "*/" \o ToString(seconds) \o " * * * * *"
        ELSE IF seconds % 3600 = 0 THEN hoursToCronExpression(seconds \div 3600)
        ELSE "0 */" \o ToString(roundMinutes(seconds)) \o " * * * * *"

----------------------------------------------------------------------------
(* cron.schedule: what a cron expression means. Five fields are minute, hour, *)
(* day of month, month, day of week, and the second is 0; six fields have the *)
(* second in front. A field is *, a number, or a step over the field's range: *)
(* the values of the range the step divides. The expressions the scheduler    *)
(* builds leave the day and month fields at *. Times are wall-clock times     *)
(* with no clock change between firings.                                      *)

\* expression.split(' ')
RECURSIVE splitFields(_)
splitFields(expression) ==
    IF expression = "" THEN <<"">>
    ELSE LET c == SubSeq(expression, 1, 1)
             rest == splitFields(SubSeq(expression, 2, Len(expression)))
         IN  IF c = " " THEN <<"">> \o rest
             ELSE <<c \o Head(rest)>> \o Tail(rest)

digitValue(c) == CHOOSE v \in 0..9 : ToString(v) = c

\* parseInt(text, 10) of a string of digits
RECURSIVE toNumber(_)
toNumber(text) ==
    IF text = "" THEN 0
    ELSE toNumber(SubSeq(text, 1, Len(text) - 1)) * 10 + digitValue(SubSeq(text, Len(text), Len(text)))

\* the values of the range that a field matches
fieldValues(field, range) ==
    IF field = "*" THEN range
    ELSE IF Len(field) > 2 /\ SubSeq(field, 1, 2) = "*/"
         THEN {v \in range : v % toNumber(SubSeq(field, 3, Len(field))) = 0}
    ELSE {toNumber(field)} \cap range

\* the seconds, minutes and hours at which the expression fires
cronPattern(expression) ==
    LET given == splitFields(expression)
        fields == IF Len(given) = 5 THEN <<"0">> \o given ELSE given
    IN  [seconds |-> fieldValues(fields[1], 0..59),
         minutes |-> fieldValues(fields[2], 0..59),
         hours |-> fieldValues(fields[3], 0..23)]

Min(S) == CHOOSE x \in S : \A y \in S : x <= y

SecondsPerDay == 86400

\* the first time after t that the pattern matches
nextMatch(pattern, t) ==
    LET day == t \div SecondsPerDay
        h == (t \div 3600) % 24
        m == (t \div 60) % 60
        sec == t % 60
        laterSeconds == {x \in pattern.seconds : x > sec}
        laterMinutes == {x \in pattern.minutes : x > m}
        laterHours == {x \in pattern.hours : x > h}
        at(d, hh, mm, ss) == d * SecondsPerDay + hh * 3600 + mm * 60 + ss
    IN  IF h \in pattern.hours /\ m \in pattern.minutes /\ laterSeconds # {}
        THEN at(day, h, m, Min(laterSeconds))
        ELSE IF h \in pattern.hours /\ laterMinutes # {}
        THEN at(day, h, Min(laterMinutes), Min(pattern.seconds))
        ELSE IF laterHours # {}
        THEN at(day, Min(laterHours), Min(pattern.minutes), Min(pattern.seconds))
        ELSE at(day + 1, Min(pattern.hours), Min(pattern.minutes), Min(pattern.seconds))

----------------------------------------------------------------------------
(* CronScheduler: the registry of jobs and the firing of their tasks *)

JobNames == {"autoMessages", "voiceMessages"}

CallbackOutcomes == {"returns", "throws"}

\* a firing that lets the callback's error through
unguardedTask(callbackOutcome) == callbackOutcome

\* async () => { try { await callback(); } catch (error) { logger.error(...) } }
\* what a firing of the task ends with
scheduledTask(callbackOutcome) ==
    IF callbackOutcome = "throws" THEN "logged" ELSE callbackOutcome

\* the task cron.schedule creates for an expression with the given firing pattern
taskOf(name, intervalSeconds, cronExpression, pattern) ==
    [name |-> name, intervalSeconds |-> intervalSeconds, expression |-> cronExpression,
     pattern |-> pattern, running |-> FALSE, destroyed |-> FALSE,
     since |-> clock, lastFired |-> -1, gap |-> 0, firings |-> 0, caught |-> 0]

\* cron.schedule(cronExpression, task, { scheduled: false })
newTimer(name, intervalSeconds, cronExpression) ==
    taskOf(name, intervalSeconds, cronExpression, cronPattern(cronExpression))

\* this.jobs.set(name, job)
setJob(name, index) ==
    [k \in DOMAIN jobs \cup {name} |-> IF k = name THEN index ELSE jobs[k]]

\* job.start(): a stopped task begins to watch the clock
started(timer) ==
    IF timer.running THEN timer
    ELSE [timer EXCEPT !.running = TRUE, !.since = clock, !.lastFired = -1]

\* a stop that leaves the task watching the clock
notStopped(timer) == timer

\* job.stop()
stopped(timer) == [timer EXCEPT !.running = FALSE]

\* the tasks the registry reaches
registered == {jobs[name] : name \in DOMAIN jobs}

\* scheduleAutoMessages(intervalSeconds, callback); an interval below 1 throws
\* before a task is created. The new task takes the name's place in the registry.
scheduleAutoMessages(intervalSeconds) ==
    /\ Len(timers) < MaxTimers
    /\ intervalSeconds >= 1
    /\ timers' = Append(timers, newTimer("autoMessages", intervalSeconds,
                                         secondsToCronExpression(intervalSeconds)))
    /\ jobs' = setJob("autoMessages", Len(timers) + 1)
    /\ UNCHANGED <<storeVars, cycleVars, probe, clock, isRunning, escaped, bootVars>>

\* scheduleCustomTask('voiceMessages', secondsToCronExpression(voiceInterval), callback)
scheduleCustomTask(name, cronExpression) ==
    /\ Len(timers) < MaxTimers
    /\ timers' = Append(timers, newTimer(name, voiceInterval, cronExpression))
    /\ jobs' = setJob(name, Len(timers) + 1)
    /\ UNCHANGED <<storeVars, cycleVars, probe, clock, isRunning, escaped, bootVars>>

startAll ==
    /\ timers' = [i \in DOMAIN timers |->
                    IF i \in registered THEN started(timers[i]) ELSE timers[i]]
    /\ isRunning' = TRUE
    /\ UNCHANGED <<storeVars, cycleVars, probe, clock, jobs, escaped, bootVars>>

stopAll ==
    /\ timers' = [i \in DOMAIN timers |->
                    IF i \in registered THEN stopped(timers[i]) ELSE timers[i]]
    /\ isRunning' = FALSE
    /\ UNCHANGED <<storeVars, cycleVars, probe, clock, jobs, escaped, bootVars>>

\* startJob(name); an unknown name returns false
startJob(name) ==
    /\ timers' = IF name \in DOMAIN jobs
                 THEN [timers EXCEPT ![jobs[name]] = started(@)]
                 ELSE timers
    /\ UNCHANGED <<storeVars, cycleVars, probe, clock, jobs, isRunning, escaped, bootVars>>

\* stopJob(name); an unknown name returns false
stopJob(name) ==
    /\ timers' = IF name \in DOMAIN jobs
                 THEN [timers EXCEPT ![jobs[name]] = stopped(@)]
                 ELSE timers
    /\ UNCHANGED <<storeVars, cycleVars, probe, clock, jobs, isRunning, escaped, bootVars>>

\* job.destroy(): the task is released; of its history the count of firings remains
destroyed(timer) ==
    [timer EXCEPT !.destroyed = TRUE, !.since = 0, !.lastFired = -1, !.gap = 0, !.caught = 0]

\* removeJob(name): job.stop(), job.destroy(), this.jobs.delete(name)
removeJob(name) ==
    /\ name \in DOMAIN jobs
    /\ timers' = [timers EXCEPT ![jobs[name]] = destroyed(stopped(@))]
    /\ jobs' = [k \in DOMAIN jobs \ {name} |-> jobs[k]]
    /\ UNCHANGED <<storeVars, cycleVars, probe, clock, isRunning, escaped, bootVars>>

\* shutdown(): stopAll(), job.destroy() for every job of the registry, jobs.clear()
shutdown ==
    /\ jobs' = << >>
    /\ isRunning' = FALSE
    /\ timers' = [i \in DOMAIN timers |->
                    IF i \in registered THEN destroyed(stopped(timers[i])) ELSE timers[i]]
    /\ UNCHANGED <<storeVars, cycleVars, probe, clock, escaped, bootVars>>

\* the time at which a running task fires next
due(timer) == nextMatch(timer.pattern, timer.since)

\* the tasks that watch the clock
watching == {i \in DOMAIN timers : timers[i].running}

RECURSIVE sumFirings(_)
sumFirings(list) == IF list = << >> THEN 0 ELSE Head(list).firings + sumFirings(Tail(list))

\* the clock reaches the next time the expression of task i matches and the task
\* runs the callback. An error the task lets through is an unhandled rejection,
\* which ends the process and with it every task.
Fire(i, callbackOutcome) ==
    LET timer == timers[i]
        at == due(timer)
        fired == [timer EXCEPT !.since = at,
                               !.lastFired = at,
                               !.gap = IF timer.lastFired < 0 THEN 0 ELSE at - timer.lastFired,
                               !.firings = @ + 1,
                               !.caught = @ + (IF callbackOutcome = "throws" THEN 1 ELSE 0)]
    IN  /\ i \in watching
        /\ sumFirings(timers) < MaxFirings
        /\ \A j \in watching : at <= due(timers[j])
        /\ clock' = at
        /\ IF scheduledTask(callbackOutcome) = "throws"
           THEN /\ timers' = [j \in DOMAIN timers |->
                                stopped(IF j = i THEN fired ELSE timers[j])]
                /\ escaped' = escaped + 1
           ELSE /\ timers' = [timers EXCEPT ![i] = fired]
                /\ UNCHANGED escaped
        /\ UNCHANGED <<storeVars, cycleVars, probe, jobs, isRunning, bootVars>>

\* time passes while no task watches the clock
Wait(t) ==
    /\ timers = << >>
    /\ clock < t
    /\ clock' = t
    /\ UNCHANGED <<storeVars, cycleVars, probe, timers, jobs, isRunning, escaped, bootVars>>

\* the scheduler as the application uses it, and the calls on its registry:
\* initializeAutomation schedules on a new scheduler and /schedule/update after
\* removeJob('autoMessages'), so a name is scheduled only while it is not registered
NextSched ==
    \/ "autoMessages" \notin DOMAIN jobs /\ scheduleAutoMessages(messageInterval)
    \/ /\ "voiceMessages" \notin DOMAIN jobs
       /\ scheduleCustomTask("voiceMessages", secondsToCronExpression(voiceInterval))
    \/ shutdown
    \/ startAll
    \/ stopAll
    \/ \E name \in JobNames : startJob(name)
    \/ \E name \in JobNames : stopJob(name)
    \/ \E name \in JobNames : removeJob(name)
    \/ \E i \in DOMAIN timers, callbackOutcome \in CallbackOutcomes : Fire(i, callbackOutcome)

SpecSched == Init /\ [][NextSched]_vars

\* the autoMessages job with any of the periods, scheduled at any of the start times,
\* started and left running
NextTiming ==
    \/ \E t \in StartTimes : Wait(t)
    \/ \E intervalSeconds \in Intervals :
          "autoMessages" \notin DOMAIN jobs /\ scheduleAutoMessages(intervalSeconds)
    \/ startJob("autoMessages")
    \/ \E i \in DOMAIN timers, callbackOutcome \in CallbackOutcomes : Fire(i, callbackOutcome)

SpecTiming == Init /\ [][NextTiming]_vars

\* a task that fires whether or not it was stopped
firesStopped(name) == name \in DOMAIN jobs

\* the task registered under the name watches the clock: only then does it fire
taskRuns(name) == name \in DOMAIN jobs /\ timers[jobs[name]].running

\* a firing of the job's task runs the callback the application scheduled, which
\* begins cycle h
FireCycle(name, h) ==
    /\ taskRuns(name)
    /\ BeginCycle(h, "scheduled")

\* the two jobs of the application, started and stopped while their cycles run
NextStop ==
    \/ "autoMessages" \notin DOMAIN jobs /\ scheduleAutoMessages(messageInterval)
    \/ /\ "voiceMessages" \notin DOMAIN jobs
       /\ scheduleCustomTask("voiceMessages", secondsToCronExpression(voiceInterval))
    \/ startAll
    \/ stopAll
    \/ \E name \in JobNames : startJob(name)
    \/ \E name \in JobNames : stopJob(name)
    \/ FireCycle("autoMessages", "text")
    \/ FireCycle("voiceMessages", "voice")
    \/ SetReady(TRUE)
    \/ \E h \in Cycles : SyncStep(h, TRUE)
    \/ \E completion \in Completions, choice \in FallbackChoices :
          GenerateStep("text", generated[completion, choice])
    \/ \E message \in GeneratedTexts : GenerateStep("voice", generateVoiceMessage(message))
    \/ \E h \in Cycles : SynthesizeStep(h, TRUE)
    \/ \E h \in Cycles : SendStep(h, TRUE)
    \/ \E h \in Cycles : RecordStep(h)

SpecStop == Init /\ [][NextStop]_vars

\* the scheduler under any sequence of the calls of its class
NextAnyCalls ==
    \/ scheduleAutoMessages(messageInterval)
    \/ scheduleCustomTask("voiceMessages", secondsToCronExpression(voiceInterval))
    \/ startAll
    \/ stopAll
    \/ \E name \in JobNames : startJob(name)
    \/ \E name \in JobNames : stopJob(name)
    \/ \E name \in JobNames : removeJob(name)
    \/ shutdown
    \/ \E i \in DOMAIN timers, callbackOutcome \in CallbackOutcomes : Fire(i, callbackOutcome)

SpecAnyCalls == Init /\ [][NextAnyCalls]_vars

----------------------------------------------------------------------------
(* The pure functions of the store, called on their own *)

\* number of stored messages handed to a pure function
MaxProbe == 2

\* timestamps of the stored messages around the new message's timestamp: exactly a
\* window before it, a millisecond less, the same, a millisecond less than a window
\* after it, exactly a window after it
ProbeNow == 2 * timeWindow

ProbeTimes ==
    {ProbeNow - timeWindow, ProbeNow - timeWindow + 1, ProbeNow,
     ProbeNow + timeWindow - 1, ProbeNow + timeWindow}

ProbeBodies == {"hola", "chau"}

ProbeDirections == {"incoming", "outgoing"}

\* the fields of a normalized message that isDuplicateMessage reads
StoredProbes ==
    [messageId : {NoId, serializedId(1)}, body : ProbeBodies,
     from : ProbeDirections, timestamp : ProbeTimes]

NewProbes ==
    [messageId : {NoId, serializedId(1)}, body : {"hola"}, from : ProbeDirections,
     timestamp : {ProbeNow}]

\* the sequences over S of a length up to n
RECURSIVE seqsUpTo(_, _)
seqsUpTo(S, n) ==
    IF n = 0 THEN {<< >>}
    ELSE LET shorter == seqsUpTo(S, n - 1)
         IN  shorter \cup {Append(q, x) : q \in {r \in shorter : Len(r) = n - 1}, x \in S}

\* this.isDuplicateMessage(messages, newMessage)
IsDuplicateMessage(messages, newMessage) ==
    /\ probe' = [op |-> "isDuplicateMessage", args |-> <<messages, newMessage>>,
                 result |-> isDuplicateMessage(messages, newMessage)]
    /\ UNCHANGED <<storeVars, cycleVars, clock, timers, jobs, isRunning, escaped, bootVars>>

\* one call in a run
NextDedup ==
    /\ probe.op = "none"
    /\ \E messages \in seqsUpTo(StoredProbes, MaxProbe), newMessage \in NewProbes :
          IsDuplicateMessage(messages, newMessage)

SpecDedup == Init /\ [][NextDedup]_vars

----------------------------------------------------------------------------
(* The queries of the store and the validator, called on their own *)

\* number of messages in a window handed to analyzeConversationFlow
MaxWindow == 6

\* a stored conversation's messages with the given directions, a clock step apart
storedWindow(directions) ==
    [i \in DOMAIN directions |->
        [messageId |-> NoId, body |-> "hola", from |-> directions[i],
         timestamp |-> i * TickMs, isVoiceMessage |-> FALSE, source |-> "system", ref |-> NoId]]

\* the counters initializeConversation computes from the messages of a conversation
countStats(messages) ==
    LET only(direction) == {i \in DOMAIN messages : messages[i].from = direction}
        times == {messages[i].timestamp : i \in DOMAIN messages}
    IN  [totalMessages |-> Len(messages),
         incomingMessages |-> Cardinality(only("incoming")),
         outgoingMessages |-> Cardinality(only("outgoing")),
         voiceMessages |-> Cardinality({i \in DOMAIN messages : messages[i].isVoiceMessage}),
         firstMessage |-> IF times = {} THEN NullTimestamp ELSE Min(times),
         lastMessage |-> IF times = {} THEN NullTimestamp
                         ELSE CHOOSE t \in times : \A u \in times : u <= t]

\* the documents the queries are called on: no conversation, or one conversation
\* under the clean number with up to maxStoredMessages messages
ProbeStores ==
    {<< >>} \cup
    {[k \in {"51"} |-> [messages |-> storedWindow(directions),
                        stats |-> countStats(storedWindow(directions))]] :
        directions \in seqsUpTo(ProbeDirections, maxStoredMessages)}

\* getHistory(phoneNumber, limit) on the loaded document: the most recent messages
\* in the legacy shape
getHistory(conversations, phoneNumber, limit) ==
    IF phoneNumber \notin DOMAIN conversations THEN << >>
    ELSE LET messages == sliceLast(conversations[phoneNumber].messages, limit)
         IN  [i \in DOMAIN messages |->
                [body |-> messages[i].body,
                 from |-> IF messages[i].from = "outgoing" THEN "me" ELSE "contact",
                 timestamp |-> messages[i].timestamp,
                 isVoiceMessage |-> messages[i].isVoiceMessage]]

\* a classification that counts the whole window
wholeWindow(messages) == messages

\* the messages analyzeConversationFlow counts: messages.slice(-5)
countedMessages(messages) == sliceLast(messages, 5)

\* analyzeConversationFlow(messages)
analyzeConversationFlow(messages) ==
    IF Len(messages) = 0
    THEN [pattern |-> "empty", lastInteraction |-> NullTimestamp, awaitingResponse |-> FALSE]
    ELSE LET lastMessage == messages[Len(messages)]
             recentMessages == countedMessages(messages)
             incomingCount ==
                 Cardinality({i \in DOMAIN recentMessages : recentMessages[i].from = "incoming"})
             outgoingCount ==
                 Cardinality({i \in DOMAIN recentMessages : recentMessages[i].from = "outgoing"})
         IN  [pattern |-> IF incomingCount = 0 /\ outgoingCount > 0 THEN "monologue"
                          ELSE IF incomingCount > outgoingCount * 2 THEN "responsive"
                          ELSE IF outgoingCount > incomingCount * 2 THEN "initiating"
                          ELSE "balanced",
              lastInteraction |-> lastMessage.timestamp,
              awaitingResponse |-> lastMessage.from = "outgoing"]

\* getConversationContext(phoneNumber, limit) on the loaded document
getConversationContext(conversations, phoneNumber, limit) ==
    IF phoneNumber \notin DOMAIN conversations
    THEN [messages |-> << >>, hasHistory |-> FALSE, conversationFlow |-> "none"]
    ELSE LET conversation == conversations[phoneNumber]
             recentMessages == sliceLast(conversation.messages, limit)
         IN  [messages |-> recentMessages,
              hasHistory |-> Len(conversation.messages) > 0,
              conversationFlow |-> analyzeConversationFlow(recentMessages).pattern]

\* str.repeat(n)
RECURSIVE repeat(_, _)
repeat(str, n) == IF n = 0 THEN "" ELSE str \o repeat(str, n - 1)

\* the texts the validator is called on: no text, one character, two characters, ten
\* and eleven characters without a pet name, 300 characters with a pet name, 308
\* characters with a forbidden topic, the texts of test-message-validation.js, and
\* texts that break two rules or hold a name next to a pet name
ValidatorTexts ==
    {"", "a", "ok", "Hola bonit", "Hola bonita", "Buenos días",
     "hola" \o repeat(" mi amor", 37), repeat("los peques ", 28),
     "Buenos días mi amor, cómo dormiste? :)", "Mi dulce crema de leche, que tal tu día?",
     "Hola mi chocolate de leche, espero estés bien jajaja", "Amor, no olvides tomar agüita sii",
     "Hola Dulce, cómo estás?", "Buenos días Elena", "Cómo están los niños?",
     "Los peques ya comieron?", "Mi amor, y los peques?", "kids", "Los hijos", "Tu hijo",
     "Shirley y los hijos", "Elena es un bot", "Soy un bot", "Soy un bot, mi amor",
     "Soy un bot generado", "Dulce", "Hola Dulce, mi amor", "Mi amor Elena",
     "Mi dulce crema de leche y Dulce"}

\* validateMessage on each of the texts
validated == [message \in ValidatorTexts |-> validateMessage(message)]

\* a call of a query: its name, its arguments, what it returned
Query(op, args, result) ==
    /\ probe' = [op |-> op, args |-> args, result |-> result]
    /\ UNCHANGED <<storeVars, cycleVars, clock, timers, jobs, isRunning, escaped, bootVars>>

GetHistory(conversations, phoneNumber, limit) ==
    Query("getHistory", <<conversations, phoneNumber, limit>>,
          getHistory(conversations, phoneNumber, limit))

GetConversationContext(conversations, phoneNumber, limit) ==
    Query("getConversationContext", <<conversations, phoneNumber, limit>>,
          getConversationContext(conversations, phoneNumber, limit))

AnalyzeConversationFlow(messages) ==
    Query("analyzeConversationFlow", <<messages>>, analyzeConversationFlow(messages))

ValidateMessage(message) == Query("validateMessage", <<message>>, validated[message])

\* one call in a run
NextQuery ==
    /\ probe.op = "none"
    /\ \/ \E message \in ValidatorTexts : ValidateMessage(message)
       \/ \E conversations \in ProbeStores, phoneNumber \in Keys, limit \in 0..(MaxLimit + 1) :
             GetHistory(conversations, phoneNumber, limit)
       \/ \E conversations \in ProbeStores, phoneNumber \in Keys, limit \in 0..(MaxLimit + 1) :
             GetConversationContext(conversations, phoneNumber, limit)
       \/ \E directions \in seqsUpTo(ProbeDirections, MaxWindow) :
             AnalyzeConversationFlow(storedWindow(directions))

SpecQuery == Init /\ [][NextQuery]_vars

----------------------------------------------------------------------------
(* The store file: conversation_history.json as the operations find it, read  *)
(* by loadHistory and written by saveHistory. A file is missing, corrupt (it  *)
(* cannot be parsed), flat (the prior shape: contact key -> messages) or      *)
(* versioned (metadata and conversations).                                    *)

\* number of store operations in a run
MaxCalls == 2

MissingFile == [shape |-> "missing"]

CorruptFile == [shape |-> "corrupt"]

\* the document initializeStorage writes and loadHistory returns for want of a file
emptyDocument(dateNow) ==
    [shape |-> "versioned",
     metadata |-> [version |-> "2.0", created |-> dateNow, lastUpdated |-> dateNow],
     conversations |-> << >>]

\* a save that leaves an unreadable file behind
saveCorrupts(data, dateNow) == CorruptFile

\* saveHistory(data): the file after the write
saveHistory(data, dateNow) == [data EXCEPT !.metadata.lastUpdated = dateNow]

\* migrateHistoryFormat(): the file after it; a file that cannot be read or that
\* has metadata or conversations is left as it is
migrateHistoryFormat(file, dateNow) ==
    IF file.shape # "flat" THEN file
    ELSE [shape |-> "versioned",
          metadata |-> [version |-> "2.0", created |-> dateNow, lastUpdated |-> dateNow,
                        migrated |-> TRUE],
          conversations |->
              [phoneNumber \in DOMAIN file.entries |->
                  [messages |->
                      [i \in DOMAIN file.entries[phoneNumber] |->
                          LET msg == file.entries[phoneNumber][i]
                          IN  [messageId |-> NoId,
                               body |-> msg.body,
                               from |-> IF msg.from = "me" THEN "outgoing" ELSE "incoming",
                               timestamp |-> msg.timestamp,
                               isVoiceMessage |-> startsWithVoice(msg.body),
                               source |-> "migrated",
                               ref |-> NoId]]]]]

\* initializeStorage(): a missing file is created empty, an existing one migrated
initializeStorage(file, dateNow) ==
    IF file.shape = "missing" THEN emptyDocument(dateNow)
    ELSE migrateHistoryFormat(file, dateNow)

\* loadHistory(): the document it returns, and the file after it
loadHistory(file, dateNow) ==
    IF file.shape \in {"missing", "corrupt"}
    THEN [data |-> emptyDocument(dateNow), file |-> file]
    ELSE [data |-> migrateHistoryFormat(file, dateNow),
          file |-> migrateHistoryFormat(file, dateNow)]

\* initializeConversation(phoneNumber): the file after it
initializeConversation(file, phoneNumber, dateNow) ==
    LET loaded == loadHistory(file, dateNow)
        data == loaded.data
    IN  IF phoneNumber \notin DOMAIN data.conversations
        THEN saveHistory([data EXCEPT !.conversations =
                             withConversation(@, phoneNumber, NewConversation)], dateNow)
        ELSE IF "stats" \notin DOMAIN data.conversations[phoneNumber]
        THEN saveHistory([data EXCEPT !.conversations =
                             withConversation(@, phoneNumber,
                                 [messages |-> data.conversations[phoneNumber].messages,
                                  stats |-> countStats(data.conversations[phoneNumber].messages)])],
                         dateNow)
        ELSE loaded.file

\* addMessage(phoneNumber, messageData, fromWhatsApp): the file after it and the
\* message it returns, if any; an error inside is caught and null returned
addMessage(file, phoneNumber, messageData, fromWhatsApp, dateNow) ==
    LET loaded == loadHistory(initializeConversation(file, phoneNumber, dateNow), dateNow)
        data == loaded.data
        normalizedMessage == normalizeMessage(messageData, fromWhatsApp, dateNow)
    IN  IF phoneNumber \notin DOMAIN data.conversations
        THEN [file |-> loaded.file, returned |-> << >>]
        ELSE LET r == addToConversation(data.conversations[phoneNumber], normalizedMessage)
             IN  IF r.added
                 THEN [file |-> saveHistory([data EXCEPT !.conversations =
                                   withConversation(@, phoneNumber, r.conversation)], dateNow),
                       returned |-> <<normalizedMessage>>]
                 ELSE [file |-> loaded.file, returned |-> << >>]

\* the loop of syncFromWhatsApp: addMessage for each message, counting the added
RECURSIVE addMessages(_, _, _, _)
addMessages(file, phoneNumber, sortedMessages, dateNow) ==
    IF sortedMessages = << >> THEN [file |-> file, returned |-> 0]
    ELSE LET added == addMessage(file, phoneNumber, Head(sortedMessages), TRUE, dateNow)
             rest == addMessages(added.file, phoneNumber, Tail(sortedMessages), dateNow)
         IN  [file |-> rest.file,
              returned |-> rest.returned + (IF added.returned # << >> THEN 1 ELSE 0)]

\* syncFromWhatsApp(phoneNumber, whatsappMessages)
syncFromWhatsApp(file, phoneNumber, whatsappMessages, dateNow) ==
    IF whatsappMessages = << >> THEN [file |-> file, returned |-> 0]
    ELSE addMessages(initializeConversation(file, phoneNumber, dateNow), phoneNumber,
                     sortBatch(whatsappMessages), dateNow)

\* markMessageSent(phoneNumber, messageContent, voiceMessage)
markMessageSent(file, phoneNumber, messageContent, voiceMessage, dateNow) ==
    addMessage(file, phoneNumber, sentMessageData(messageContent, voiceMessage, NoId),
               FALSE, dateNow)

\* what getConversationStats returns for want of a conversation or on an error
NoStats ==
    [totalMessages |-> 0, incomingMessages |-> 0, outgoingMessages |-> 0, voiceMessages |-> 0,
     lastMessageTime |-> NullTimestamp, conversationStarted |-> NullTimestamp,
     lastMessageFrom |-> "", hasHistory |-> FALSE]

\* getConversationStats(phoneNumber): reading conversation.stats of a conversation
\* that has none is an error, which is caught
getConversationStats(file, phoneNumber, dateNow) ==
    LET loaded == loadHistory(file, dateNow)
        conversations == loaded.data.conversations
    IN  [file |-> loaded.file,
         returned |->
             IF phoneNumber \notin DOMAIN conversations THEN NoStats
             ELSE IF "stats" \notin DOMAIN conversations[phoneNumber] THEN NoStats
             ELSE LET conversation == conversations[phoneNumber]
                  IN  [totalMessages |-> conversation.stats.totalMessages,
                       incomingMessages |-> conversation.stats.incomingMessages,
                       outgoingMessages |-> conversation.stats.outgoingMessages,
                       voiceMessages |-> conversation.stats.voiceMessages,
                       lastMessageTime |-> conversation.stats.lastMessage,
                       conversationStarted |-> conversation.stats.firstMessage,
                       lastMessageFrom |->
                           IF Len(conversation.messages) > 0
                           THEN conversation.messages[Len(conversation.messages)].from ELSE "",
                       hasHistory |-> Len(conversation.messages) > 0]]

\* clearHistory(phoneNumber = null): with a contact key that conversation is
\* deleted, without one all conversations are; the metadata stays
clearHistory(file, phoneNumber, dateNow) ==
    LET data == loadHistory(file, dateNow).data
    IN  [file |-> saveHistory([data EXCEPT !.conversations =
                      IF truthy(phoneNumber)
                      THEN [k \in DOMAIN @ \ {phoneNumber} |-> @[k]]
                      ELSE << >>], dateNow),
         returned |-> TRUE]

StoreOps ==
    {"addMessage", "syncFromWhatsApp", "markMessageSent", "getHistory",
     "getConversationContext", "getConversationStats", "clearHistory"}

\* the message of the contact that the operations are called with
ReceivedMessage(i, dateNow) == RawMessage(serializedId(i), "hola", FALSE, i * (dateNow \div 1000), "chat")

\* an operation of the store called for a contact on the file
storeCall(op, file, phoneNumber, dateNow) ==
    CASE op = "initializeStorage" ->
            [file |-> initializeStorage(file, dateNow), returned |-> << >>]
      [] op = "addMessage" ->
            addMessage(file, phoneNumber, ReceivedMessage(1, dateNow), TRUE, dateNow)
      [] op = "syncFromWhatsApp" ->
            syncFromWhatsApp(file, phoneNumber,
                             <<ReceivedMessage(2, dateNow), ReceivedMessage(1, dateNow)>>, dateNow)
      [] op = "markMessageSent" -> markMessageSent(file, phoneNumber, "hola", FALSE, dateNow)
      [] op = "getHistory" ->
            [file |-> loadHistory(file, dateNow).file,
             returned |-> getHistory(loadHistory(file, dateNow).data.conversations,
                                     phoneNumber, MaxLimit)]
      [] op = "getConversationContext" ->
            [file |-> loadHistory(file, dateNow).file,
             returned |-> getConversationContext(loadHistory(file, dateNow).data.conversations,
                                                 phoneNumber, MaxLimit)]
      [] op = "getConversationStats" -> getConversationStats(file, phoneNumber, dateNow)
      [] op = "clearHistory" -> clearHistory(file, phoneNumber, dateNow)

\* the messages of a flat file: body, from ('me' or 'contact') and timestamp
legacyWindow(directions) ==
    [i \in DOMAIN directions |->
        [body |-> "hola", from |-> IF directions[i] = "outgoing" THEN "me" ELSE "contact",
         timestamp |-> i * TickMs]]

\* the files the operations may find: none, an unreadable one, an empty document,
\* flat and versioned files with one or two messages of the contact
StoreFiles ==
    {MissingFile, CorruptFile, emptyDocument(NullTimestamp)}
    \cup {[shape |-> "flat", entries |-> [k \in {"51"} |-> legacyWindow(directions)]] :
            directions \in seqsUpTo(ProbeDirections, maxStoredMessages) \ {<< >>}}
    \cup {[emptyDocument(NullTimestamp) EXCEPT !.conversations = conversations] :
            conversations \in ProbeStores \ {<< >>}}

\* the file comes into being as it is found
FindFile(file) ==
    /\ probe.op = "none"
    /\ probe' = [op |-> "find", args |-> <<file, "51", 0>>,
                 result |-> [file |-> file, returned |-> << >>]]
    /\ UNCHANGED <<storeVars, cycleVars, clock, timers, jobs, isRunning, escaped, bootVars>>

\* an operation on the file that the operation before it left behind
StoreCall(op, phoneNumber) ==
    /\ probe.op # "none"
    /\ probe' = [op |-> op, args |-> <<probe.result.file, phoneNumber, probe.args[3] + 1>>,
                 result |-> storeCall(op, probe.result.file, phoneNumber, now)]
    /\ UNCHANGED <<storeVars, cycleVars, clock, timers, jobs, isRunning, escaped, bootVars>>

NextFile ==
    /\ IF probe.op = "none" THEN TRUE ELSE probe.args[3] < MaxCalls
    /\ \/ \E file \in StoreFiles : FindFile(file)
       \/ \E op \in StoreOps \cup {"initializeStorage"} : StoreCall(op, "51")

SpecFile == Init /\ [][NextFile]_vars

----------------------------------------------------------------------------
(* Claims about the store *)

Range(seq) == {seq[i] : i \in DOMAIN seq}

\* the number of records of conversation k that stand for chat message ref
recordsIn(k, ref) ==
    IF k \in DOMAIN store
    THEN Cardinality({j \in DOMAIN store[k].messages : store[k].messages[j].ref = ref})
    ELSE 0

RECURSIVE sumOver(_, _)
sumOver(f, S) ==
    IF S = {} THEN 0
    ELSE LET x == CHOOSE y \in S : TRUE IN f[x] + sumOver(f, S \ {x})

\* the number of records of the whole store that stand for chat message ref
records(ref) == sumOver([k \in Keys |-> recordsIn(k, ref)], Keys)

\* C1: for every contact, stats.totalMessages equals the number of messages stored
\* in the conversation, after any sequence of addMessage, syncFromWhatsApp and
\* markMessageSent calls, trimming included.
C1_TotalMessagesIsLength ==
    \A k \in DOMAIN store : store[k].stats.totalMessages = Len(store[k].messages)

\* a second syncFromWhatsApp of the same batch, run on the state the first one left
secondSync(whatsappMessages) ==
    syncInto(conversationOf(store', targetPhoneNumber), sortBatch(whatsappMessages))

\* C3: syncFromWhatsApp called twice in a row with the same batch: the second call
\* returns 0 and leaves messages and stats as the first call left them, also for a
\* conversation at the retention cap.
C3_SyncTwiceIsIdempotent ==
    [][\A limit \in 1..MaxLimit :
          SyncFromWhatsApp(getMessages(limit))
          => /\ secondSync(getMessages(limit)).count = 0
             /\ secondSync(getMessages(limit)).conversation
                   = conversationOf(store', targetPhoneNumber)]_vars

\* the conversation of the target holds a record written by markMessageSent for
\* chat message ref
recordedAsSent(ref) ==
    /\ targetPhoneNumber \in DOMAIN store
    /\ \E j \in DOMAIN store[targetPhoneNumber].messages :
          /\ store[targetPhoneNumber].messages[j].ref = ref
          /\ store[targetPhoneNumber].messages[j].source = "system"

\* C4: a message recorded with markMessageSent (text or voice) and later returned
\* by the fetch and merged with syncFromWhatsApp is stored once: the merge adds no
\* second record for it.
C4_MergeKeepsSentMessageOnce ==
    [][\A limit \in 1..MaxLimit :
          SyncFromWhatsApp(getMessages(limit))
          => \A i \in DOMAIN chat :
                (i > Len(chat) - limit /\ chat[i].fromMe /\ recordedAsSent(serializedId(i)))
                => Cardinality({j \in DOMAIN store'[targetPhoneNumber].messages :
                                  store'[targetPhoneNumber].messages[j].ref = serializedId(i)}) <= 1]_vars

----------------------------------------------------------------------------
(* Claims about store calls in flight together *)

NoCallInFlight == \A h \in Handlers : calls[h].pc \in {"idle", "send", "done"}

\* the messages that addMessage calls on conversation k returned
addedTo(k) == UNION {{a.message : a \in {b \in calls[h].added : b.key = k}} : h \in Handlers}

\* no conversation can have been trimmed
BelowCap == \A k \in Keys : Cardinality(addedTo(k)) <= maxStoredMessages

\* C2: store calls of the live handler, a text cycle and a voice cycle in flight
\* together for the same contact key lose no update: once they have completed,
\* every message an addMessage returned is stored and stats.totalMessages counts
\* them all.
C2_NoLostUpdate ==
    (NoCallInFlight /\ BelowCap)
    => \A h \in Handlers : \A a \in calls[h].added :
          /\ a.key \in DOMAIN store
          /\ a.message \in Range(store[a.key].messages)
          /\ store[a.key].stats.totalMessages = Cardinality(addedTo(a.key))

\* C5: an incoming message seen by the live handler and by the batch sync of a
\* cycle, in either order or interleaved, is exactly one record in one
\* conversation of the store.
C5_IncomingStoredOnce ==
    (NoCallInFlight /\ BelowCap)
    => \A i \in DOMAIN chat :
          (/\ ~chat[i].fromMe
           /\ serializedId(i) \in calls["live"].seen
           /\ \E h \in Cycles : serializedId(i) \in calls[h].seen)
          => records(serializedId(i)) = 1

----------------------------------------------------------------------------
(* Claims about the automatic cycles *)

\* C6: in every automatic cycle (scheduled or manual, text or voice) a text is handed
\* to the channel's send operation only by a cycle that is at its send step with a text
\* validateMessage accepts; and the step at which a generated text fails validation ends
\* the cycle with an error that names the validator's reason, sends nothing, writes
\* nothing to the store and leaves the sent counters and last-sent records alone.
C6_SendOnlyAfterValidation ==
    [][\A h \in Cycles :
          LET c == cycle[h]
              d == cycle'[h]
              validation == verdict[d.message]
          IN  /\ (sendLog' # sendLog /\ d # c) =>
                    /\ c.pc = "Sending"
                    /\ sendLog' = Append(sendLog, c.message)
                    /\ verdict[c.message].valid
              /\ (sendLog' # sendLog) => \E g \in Cycles : cycle'[g] # cycle[g]
              /\ (c.pc = "Generating" /\ d.pc # "Generating" /\ d.message # ""
                    /\ ~validation.valid) =>
                    /\ d.pc = "Idle"
                    /\ d.result.kind = "error"
                    /\ d.result.error \in {"Invalid message: " \o validation.reason,
                                           "Invalid message for voice: " \o validation.reason}
                    /\ validation.reason # ""
                    /\ d.ref = ""
                    /\ UNCHANGED <<chat, sendLog, store, lastSent>>
                    /\ stats'.messagesSent = stats.messagesSent
                    /\ stats'.voiceMessagesSent = stats.voiceMessagesSent
              /\ d.pc \in {"Synthesizing", "Sending", "Recording"} =>
                    verdict[d.message].valid]_vars

\* a manually triggered and a scheduled cycle have ended on a validation failure,
\* one of them a voice cycle, after another cycle has sent its text
C6_Witness ==
    /\ sendLog # << >>
    /\ \E h \in Cycles :
          /\ cycle[h].pc = "Idle"
          /\ cycle[h].result.kind = "error"
          /\ cycle[h].message # ""
          /\ ~verdict[cycle[h].message].valid
    /\ cycle["voice"].result.error =
          "Invalid message for voice: Message contains forbidden topic: peques"

----------------------------------------------------------------------------
(* Claims about the scheduler *)

\* the time between the last two firings of a task, taken while it stayed running
measured(i) == timers[i].gap # 0

\* C7: when the callback throws during a firing, the error does not leave the firing
\* site, the registry is unchanged, the task stays running and registered, and the task
\* keeps watching the clock for its next time.
C7_CallbackErrorIsSwallowed ==
    [][\A i \in DOMAIN timers :
          (timers'[i].firings = timers[i].firings + 1
              /\ timers'[i].caught = timers[i].caught + 1) =>
              /\ escaped' = escaped
              /\ jobs' = jobs
              /\ isRunning' = isRunning
              /\ timers'[i].running
              /\ ~timers'[i].destroyed
              /\ due(timers'[i]) > clock'
              /\ i \in watching'
              /\ \A j \in DOMAIN timers \ {i} : timers'[j] = timers[j]]_vars

\* a registered task whose callback threw at a firing has fired again, its callback
\* has thrown again, and the task is still running
C7_Witness ==
    \E i \in DOMAIN timers :
        /\ i \in registered
        /\ timers[i].running
        /\ timers[i].caught >= 2
        /\ escaped = 0

\* C8: consecutive firings of the autoMessages job scheduled with a period of 3600
\* seconds are 3600 seconds apart.
C8_HourlyPeriodFiresHourly ==
    \A i \in DOMAIN timers :
        (timers[i].name = "autoMessages" /\ timers[i].intervalSeconds = 3600 /\ measured(i))
            => timers[i].gap = 3600

\* C9: consecutive firings of the autoMessages job scheduled with a period of N seconds,
\* 1 <= N <= 59, are N seconds apart, on either side of a minute boundary too.
C9_SubMinutePeriodIsExact ==
    \A i \in DOMAIN timers :
        (timers[i].name = "autoMessages" /\ timers[i].intervalSeconds \in 1..59 /\ measured(i))
            => timers[i].gap = timers[i].intervalSeconds

\* C10: consecutive firings of the autoMessages job scheduled with a period of H hours,
\* H >= 2, are H hours apart, across the day boundary too.
C10_MultiHourPeriodIsExact ==
    \A i \in DOMAIN timers :
        \A H \in 2..MaxHours :
            (timers[i].name = "autoMessages" /\ timers[i].intervalSeconds = H * 3600
                /\ measured(i))
                => timers[i].gap = H * 3600

----------------------------------------------------------------------------
(* Claims about trimming, stats and duplicates *)

\* the conversations to which the step adds exactly one message while they hold
\* maxStoredMessages messages: an addMessage that trims
trimmedBy(k) ==
    /\ k \in DOMAIN store'
    /\ Len(conversationOf(store, k).messages) = maxStoredMessages
    /\ store'[k].stats.totalMessages = conversationOf(store, k).stats.totalMessages + 1

\* C11: an addMessage that pushes a conversation past maxStoredMessages leaves exactly
\* maxStoredMessages messages, and every message it dropped is no later than every
\* message it kept (the kept ones are those with the largest timestamps), also when the
\* new message is older than every stored one.
C11_TrimDropsOldest ==
    [][\A k \in Keys :
          trimmedBy(k) =>
              /\ Len(store'[k].messages) = maxStoredMessages
              /\ \A dropped \in Range(store[k].messages) \ Range(store'[k].messages) :
                    \A kept \in Range(store'[k].messages) :
                        dropped.timestamp <= kept.timestamp]_vars

\* the smallest timestamp among the messages
oldestTimestamp(messages) ==
    CHOOSE t \in {m.timestamp : m \in Range(messages)} :
        \A m \in Range(messages) : t <= m.timestamp

\* C12: after an addMessage that trims the conversation, stats.firstMessage is the
\* timestamp of the oldest message the conversation still holds.
C12_FirstMessageFollowsTrim ==
    [][\A k \in Keys :
          trimmedBy(k) =>
              store'[k].stats.firstMessage = oldestTimestamp(store'[k].messages)]_vars

\* the number of messages that satisfy the test
countOf(messages, test(_)) == Cardinality({j \in DOMAIN messages : test(messages[j])})

isIncoming(m) == m.from = "incoming"

isOutgoing(m) == m.from = "outgoing"

isVoice(m) == m.isVoiceMessage

\* C13: for every conversation, stats.incomingMessages, stats.outgoingMessages and
\* stats.voiceMessages are the numbers of incoming, outgoing and voice messages in the
\* stored sequence, and incoming + outgoing is the number of stored messages, after
\* trimming too.
C13_DirectionCountsMatchMessages ==
    \A k \in DOMAIN store :
        /\ store[k].stats.incomingMessages = countOf(store[k].messages, isIncoming)
        /\ store[k].stats.outgoingMessages = countOf(store[k].messages, isOutgoing)
        /\ store[k].stats.voiceMessages = countOf(store[k].messages, isVoice)
        /\ store[k].stats.incomingMessages + store[k].stats.outgoingMessages
              = Len(store[k].messages)

\* the dedup rule as stated: (a) the message carries an external id that a stored
\* message carries, or (b) a stored message has its body and its direction and a
\* timestamp less than 5000 ms away
dedupRule(messages, m) ==
    \/ m.messageId # "" /\ \E j \in DOMAIN messages : messages[j].messageId = m.messageId
    \/ \E j \in DOMAIN messages :
          /\ messages[j].body = m.body
          /\ messages[j].from = m.from
          /\ messages[j].timestamp - m.timestamp < 5000
          /\ m.timestamp - messages[j].timestamp < 5000

C15_DuplicateRuleIsExact ==
    probe.op = "isDuplicateMessage" =>
        LET messages == probe.args[1]
            m == probe.args[2]
        IN  /\ probe.result = dedupRule(messages, m)
            /\ (/\ \A j \in DOMAIN messages :
                      \/ messages[j].from # m.from
                      \/ Abs(messages[j].timestamp - m.timestamp) = 5000
                /\ \A j \in DOMAIN messages :
                      m.messageId = "" \/ messages[j].messageId # m.messageId)
                  => probe.result = FALSE

\* isDuplicateMessage was called with a message that carries no id, a stored message
\* with its body and direction exactly 5000 ms away and a stored message with its body
\* and timestamp but the other direction, and answered false
C15_Witness ==
    /\ probe.op = "isDuplicateMessage"
    /\ probe.result = FALSE
    /\ probe.args[2].messageId = ""
    /\ \E j \in DOMAIN probe.args[1] :
          /\ probe.args[1][j].body = probe.args[2].body
          /\ probe.args[1][j].from = probe.args[2].from
          /\ Abs(probe.args[1][j].timestamp - probe.args[2].timestamp) = 5000
    /\ \E j \in DOMAIN probe.args[1] :
          /\ probe.args[1][j].body = probe.args[2].body
          /\ probe.args[1][j].from # probe.args[2].from
          /\ probe.args[1][j].timestamp = probe.args[2].timestamp

----------------------------------------------------------------------------
(* Claims about the failures of a cycle *)

\* the step of cycle h with which its generator call returns or throws
generatorReturns(h) == cycle[h].pc = "Generating" /\ cycle'[h].pc # "Generating"

\* C16: when the call to the content generator fails during a cycle, the cycle is
\* aborted with a reported error: the step ends the cycle in Idle with an error
\* result, hands no text to the channel, records nothing in the store and increments
\* the error counter.
C16_GeneratorFailureAbortsCycle ==
    [][\A h \in Cycles :
          (generatorReturns(h) /\ cycle'[h].generatorError # "") =>
              /\ cycle'[h].pc = "Idle"
              /\ cycle'[h].result.kind = "error"
              /\ stats'.errors > stats.errors
              /\ UNCHANGED <<chat, sendLog, store>>]_vars

\* the step of cycle h with which its send operation fails: the cycle leaves Sending
\* and the channel has taken no text
sendFails(h) ==
    cycle[h].pc = "Sending" /\ cycle'[h].pc # "Sending" /\ sendLog' = sendLog

\* C17: when the channel's send operation fails during a cycle, the cycle is aborted
\* with a reported error and no record is written: the failing step leaves the
\* store's conversation, the messagesSent/voiceMessagesSent counters and the last-sent
\* records as they were when the send was attempted, and counts the error.
C17_SendFailureWritesNoRecord ==
    [][\A h \in Cycles :
          sendFails(h) =>
              /\ cycle'[h].pc = "Idle"
              /\ cycle'[h].result.kind = "error"
              /\ cycle'[h].ref = ""
              /\ stats'.errors > stats.errors
              /\ stats'.messagesSent = stats.messagesSent
              /\ stats'.voiceMessagesSent = stats.voiceMessagesSent
              /\ UNCHANGED <<store, lastSent, chat>>]_vars

\* a cycle has ended on a failed send while the store held a conversation, and the
\* store holds no record of the text it could not send
C17_Witness ==
    \E h \in Cycles :
        /\ cycle[h].pc = "Idle"
        /\ cycle[h].result.kind = "error"
        /\ cycle[h].result.error = "WhatsApp client is not ready"
        /\ cycle[h].message # ""
        /\ targetPhoneNumber \in DOMAIN store
        /\ store[targetPhoneNumber].messages # << >>
        /\ \A i \in DOMAIN store[targetPhoneNumber].messages :
              store[targetPhoneNumber].messages[i].body
                  \notin {cycle[h].message, VoiceBody(cycle[h].message)}

\* C17 as stated: after a cycle whose send failed, the store's conversation, the sent
\* counters and the last-sent records are the same as before the cycle
C17_SameAsBeforeTheCycle ==
    [][\A h \in Cycles :
          sendFails(h) =>
              /\ store' = cycle[h].before.store
              /\ stats'.messagesSent = cycle[h].before.messagesSent
              /\ stats'.voiceMessagesSent = cycle[h].before.voiceMessagesSent
              /\ lastSent' = cycle[h].before.lastSent]_vars

\* C18: when the channel does not report ready at the start of a cycle, the cycle is
\* skipped and is not an error: the step that begins it leaves every cycle in Idle,
\* answers the trigger with a skip (scheduled) or a plain 200 (manual), fetches,
\* generates and sends nothing, leaves the store alone and does not touch the error
\* counter.
C18_NotReadyCycleIsSkipped ==
    [][(cyclesBegun' # cyclesBegun /\ ~isReady) =>
          /\ \A h \in Cycles :
                /\ cycle'[h].pc = cycle[h].pc
                /\ cycle'[h] # cycle[h] =>
                      /\ cycle'[h].pc = "Idle"
                      /\ cycle'[h].result.kind = "notReady"
                      /\ cycle'[h].result.response \in {"skipped", "200"}
                      /\ cycle'[h].message = ""
                      /\ cycle'[h].ref = ""
          /\ stats' = stats
          /\ UNCHANGED <<store, chat, sendLog, lastSent, calls, unrecorded>>]_vars

\* a scheduled and a manually triggered cycle have both been skipped while the chat
\* held a message to fetch, and no error has been counted
C18_Witness ==
    /\ ~isReady
    /\ chat # << >>
    /\ stats.errors = 0
    /\ cycle["text"].pc = "Idle"
    /\ cycle["text"].result = [kind |-> "notReady", error |-> "", response |-> "skipped"]
    /\ cycle["voice"].pc = "Idle"
    /\ cycle["voice"].result = [kind |-> "notReady", error |-> "", response |-> "200"]

\* the step of cycle h with which its sync step ends in a failure: the fetch was
\* tried with the channel not ready, or the step has logged an error
syncFails(h) ==
    /\ cycle[h].pc = "Syncing"
    /\ cycle'[h].pc # "Syncing"
    /\ ~isReady \/ cycle'[h].syncError # ""

\* C19: when fetching the recent external messages or merging them fails during the
\* sync step, the cycle is not aborted: the step takes the cycle on to generation with
\* the locally stored history as it was and the error counter as it was, and reports
\* no error.
C19_SyncFailureDoesNotAbort ==
    [][\A h \in Cycles :
          syncFails(h) =>
              /\ cycle'[h].pc = "Generating"
              /\ cycle'[h].result.kind = "none"
              /\ stats' = stats
              /\ UNCHANGED <<store, chat, sendLog, lastSent>>]_vars

\* a cycle whose sync failed has handed its text to the channel, while the store still
\* lacks the incoming message the failed sync would have fetched
C19_Witness ==
    \E h \in Cycles :
        /\ cycle[h].syncError # ""
        /\ cycle[h].pc = "Recording"
        /\ sendLog # << >>
        /\ \E i \in DOMAIN chat :
              /\ ~chat[i].fromMe
              /\ records(serializedId(i)) = 0
        /\ store = << >>

\* the step of cycle h with which it fails, in whatever state it was
cycleFails(h) ==
    cycle[h].pc # "Idle" /\ cycle'[h].pc = "Idle" /\ cycle'[h].result.kind = "error"

\* C20: a cycle that fails in any state increments the error counter by exactly one
\* and returns to Idle without re-raising to the scheduler (a scheduled failure is
\* logged by the callback, a manual one is answered with a 500), for scheduled and
\* for manually triggered cycles alike.
C20_FailureCountsOnce ==
    [][\A h \in Cycles :
          cycleFails(h) =>
              /\ stats'.errors = stats.errors + 1
              /\ cycle'[h].result.response =
                    (IF cycle[h].trigger = "manual" THEN "500" ELSE "logged")]_vars

----------------------------------------------------------------------------
(* Claims about the registry of the scheduler *)

\* the tasks created under a name that watch the clock
ticking(name) == {i \in watching : timers[i].name = name}

\* C21: scheduled jobs are unique by name: under any sequence of schedule, start,
\* stop, remove and shutdown calls at most one timer per job name watches the clock,
\* and it is the one the registry holds under the name, within the reach of stopJob,
\* removeJob, stopAll and shutdown.
C21_JobsUniqueByName ==
    /\ \A name \in JobNames : Cardinality(ticking(name)) <= 1
    /\ \A i \in watching : i \in registered

\* C22: shutdown() stops and releases every job and is idempotent: after it no job
\* is registered, no task watches the clock and every task is released, so that no
\* callback fires again (a task fires only while it is registered and running); a
\* shutdown() of a scheduler that was shut down changes nothing.
C22_ShutdownIsIdempotent ==
    [][/\ shutdown =>
            /\ jobs' = << >>
            /\ ~isRunning'
            /\ \A i \in DOMAIN timers' : ~timers'[i].running /\ timers'[i].destroyed
       /\ (shutdown /\ jobs = << >> /\ ~isRunning) => UNCHANGED vars
       /\ \A i \in DOMAIN timers :
             timers'[i].firings # timers[i].firings =>
                 i \in registered /\ timers[i].running]_vars

\* both jobs were scheduled and started, a task has fired, and the scheduler was
\* shut down: the registry is empty and both tasks are stopped and released
C22_Witness ==
    /\ jobs = << >>
    /\ ~isRunning
    /\ Len(timers) = 2
    /\ sumFirings(timers) > 0
    /\ \A i \in DOMAIN timers : ~timers[i].running /\ timers[i].destroyed

\* the job whose callback runs cycle h
jobOf(h) == IF h = "text" THEN "autoMessages" ELSE "voiceMessages"

\* a cycle in flight
inFlight(h) == cycle[h].pc # "Idle"

\* C23: after stopJob(name) or stopAll() no new firing of the stopped job begins
\* until it is started again: a cycle begins only while its job's task is running;
\* and a stop does not interrupt a cycle in progress: it leaves every cycle, the
\* store, the chat and the counters as they are.
C23_StopPreventsNewFiringsOnly ==
    [][/\ \A h \in Cycles :
             (~inFlight(h) /\ cyclesBegun' # cyclesBegun /\ cycle'[h] # cycle[h]) =>
                 /\ jobOf(h) \in DOMAIN jobs
                 /\ timers[jobs[jobOf(h)]].running
       /\ (stopAll \/ \E name \in JobNames : stopJob(name)) =>
             /\ \A i \in DOMAIN timers' :
                   timers[i].running /\ ~timers'[i].running => ~taskRuns(timers[i].name)'
             /\ UNCHANGED <<cycle, store, chat, sendLog, stats, lastSent, isReady>>]_vars

\* the autoMessages job is stopped while the text cycle it began is at its send
\* step, and the cycle can still hand its text to the channel
C23_Witness ==
    /\ "autoMessages" \in DOMAIN jobs
    /\ ~timers[jobs["autoMessages"]].running
    /\ cycle["text"].pc = "Sending"
    /\ cycle["text"].trigger = "scheduled"
    /\ ENABLED SendStep("text", TRUE)

----------------------------------------------------------------------------
(* Claims about the queries of the store *)

\* the messages a query returned
returnedMessages ==
    IF probe.op = "getHistory" THEN probe.result ELSE probe.result.messages

\* C24: for every contact and every limit >= 0, getHistory(contact, limit) and
\* getConversationContext(contact, limit).messages are the last min(limit, n) of the
\* n stored messages, oldest first, and never more than limit messages.
C24_QueryReturnsLastLimitMessages ==
    probe.op \in {"getHistory", "getConversationContext"} =>
        LET conversations == probe.args[1]
            phoneNumber == probe.args[2]
            limit == probe.args[3]
            messages == conversationOf(conversations, phoneNumber).messages
            n == Len(messages)
            k == IF limit < n THEN limit ELSE n
        IN  /\ Len(returnedMessages) = k
            /\ Len(returnedMessages) <= limit
            /\ \A j \in 1..Len(returnedMessages) :
                  /\ j <= k => returnedMessages[j].timestamp = messages[n - k + j].timestamp
                  /\ j > 1 => returnedMessages[j - 1].timestamp <= returnedMessages[j].timestamp

\* the pattern the rules give for i incoming and o outgoing messages in a window
\* that is not empty
patternFor(i, o) ==
    IF i = 0 /\ o >= 1 THEN "monologue"
    ELSE IF i > 2 * o THEN "responsive"
    ELSE IF o > 2 * i THEN "initiating"
    ELSE "balanced"

\* the last five messages of a window, or all of a shorter one
lastFive(messages) ==
    [j \in 1..(IF Len(messages) < 5 THEN Len(messages) ELSE 5) |->
        messages[Len(messages) - (IF Len(messages) < 5 THEN Len(messages) ELSE 5) + j]]

\* C28 as stated: analyzeConversationFlow classifies a window by its counts of
\* incoming (i) and outgoing (o) messages, taken over the whole window it is given:
\* empty when the window is empty, monologue when i = 0 and o >= 1, responsive when
\* i > 2*o, initiating when o > 2*i, balanced otherwise.
C28_FlowCountsWholeWindow ==
    probe.op = "analyzeConversationFlow" =>
        LET messages == probe.args[1]
        IN  probe.result.pattern =
                IF Len(messages) = 0 THEN "empty"
                ELSE patternFor(countOf(messages, isIncoming), countOf(messages, isOutgoing))

\* C28: analyzeConversationFlow classifies a window by the counts of incoming (i)
\* and outgoing (o) messages among the last five messages of the window: empty when
\* the window is empty, monologue when i = 0 and o >= 1 (before initiating),
\* responsive when i > 2*o, initiating when o > 2*i, balanced otherwise.
C28_FlowCountsLastFive ==
    probe.op = "analyzeConversationFlow" =>
        LET messages == probe.args[1]
        IN  probe.result.pattern =
                IF Len(messages) = 0 THEN "empty"
                ELSE patternFor(countOf(lastFive(messages), isIncoming),
                                countOf(lastFive(messages), isOutgoing))

\* a window of six messages, the oldest incoming and five outgoing after it, is a
\* monologue
C28_Witness ==
    /\ probe.op = "analyzeConversationFlow"
    /\ Len(probe.args[1]) = 6
    /\ countOf(probe.args[1], isIncoming) = 1
    /\ probe.args[1][1].from = "incoming"
    /\ probe.result.pattern = "monologue"

----------------------------------------------------------------------------
(* Claims about the validator *)

\* the tokens of the rules, as the rules are stated
TopicTokens == {"hijos", "niños", "peques", "children", "kids", "hijo", "niño"}

RealNameTokens == {"dulce", "elena", "shirley"}

DisclosureTokens == {"ai", "artificial", "inteligencia artificial", "bot", "generado", "automated"}

\* the token occurs in the text at a place that no occurrence of an approved
\* pet-name phrase covers
occursOutsidePetName(lower, token) ==
    \E i \in 1..(Len(lower) - Len(token) + 1) :
        /\ SubSeq(lower, i, i + Len(token) - 1) = token
        /\ ~\E p \in DOMAIN petNames, j \in 1..i :
              /\ i + Len(token) <= j + Len(petNames[p])
              /\ j + Len(petNames[p]) - 1 <= Len(lower)
              /\ SubSeq(lower, j, j + Len(petNames[p]) - 1) = petNames[p]

\* what the rules say of each text
ruleFacts ==
    [message \in ValidatorTexts |->
        LET lower == toLowerCase(message)
        IN  [lengthFails |-> Len(message) < 2 \/ Len(message) > 300,
             topics |-> {t \in TopicTokens : includes(lower, t)},
             hasName |-> \E t \in RealNameTokens : includes(lower, t),
             nameOutside |-> \E t \in RealNameTokens : occursOutsidePetName(lower, t),
             discloses |-> \E t \in DisclosureTokens : includes(lower, t),
             hasPetName |-> \E p \in DOMAIN petNames : includes(lower, petNames[p]),
             length |-> Len(message)]]

LengthReasons ==
    {"Message is empty or not a string", "Message is too long for Godoy's style",
     "Message is too short"}

TopicReasons == [t \in TopicTokens |-> "Message contains forbidden topic: " \o t]

NameReason == "Should use pet names instead of her real name"

DisclosureReason == "Message contains AI-related terms"

PetNameReason == "Message should include a pet name (mi amor, mi dulce crema de leche, etc.)"

C26_PetNameRuleSparesShortTexts ==
    probe.op = "validateMessage" =>
        LET f == ruleFacts[probe.args[1]]
            r == probe.result
        IN  ~f.lengthFails /\ f.topics = {} /\ ~f.hasName /\ ~f.discloses =>
                /\ f.length > 10 /\ ~f.hasPetName => ~r.valid /\ r.reason = PetNameReason
                /\ f.length <= 10 => r.valid

\* a text of ten characters without a pet name was accepted
C26_Witness ==
    /\ probe.op = "validateMessage"
    /\ ruleFacts[probe.args[1]].length = 10
    /\ ~ruleFacts[probe.args[1]].hasPetName
    /\ probe.result.valid

\* C27: validateMessage rejects every text in which a real-name token ("dulce",
\* "elena", "shirley") occurs outside an approved pet-name phrase, also when the
\* text holds an approved pet-name phrase elsewhere; and it rejects no text for a
\* name whose only occurrences are part of an approved pet-name phrase.
C27_RealNameOutsidePetNameRejected ==
    probe.op = "validateMessage" =>
        LET f == ruleFacts[probe.args[1]]
            r == probe.result
        IN  /\ f.nameOutside => ~r.valid
            /\ r.reason = NameReason => f.nameOutside

----------------------------------------------------------------------------
(* Claims about the store file *)

\* the conversations the operations find in a file
conversationsIn(file) == loadHistory(file, now).data.conversations

\* an operation was called on a file that is missing or cannot be parsed
onBrokenFile == probe.op \in StoreOps /\ probe.args[1].shape \in {"missing", "corrupt"}

\* C29: when the store file is missing or cannot be parsed, every store operation
\* returns what it returns on an empty store and leaves the conversations it leaves
\* on an empty store: addMessage returns the stored message and leaves a conversation
\* of that one message, the queries return no message and empty statistics,
\* clearHistory returns true; and every successful addMessage leaves a versioned
\* document with metadata and conversations that holds the message.
C29_BrokenFileIsAnEmptyStore ==
    LET r == probe.result
        phoneNumber == probe.args[2]
        onEmpty == storeCall(probe.op, emptyDocument(now), phoneNumber, now)
        message == normalizeWhatsApp(ReceivedMessage(1, now))
    IN  /\ onBrokenFile =>
              /\ r.returned = onEmpty.returned
              /\ conversationsIn(r.file) = conversationsIn(onEmpty.file)
              /\ probe.op = "addMessage" =>
                    /\ r.returned = <<message>>
                    /\ conversationsIn(r.file)[phoneNumber].messages = <<message>>
              /\ probe.op = "markMessageSent" => Len(r.returned) = 1
              /\ probe.op = "syncFromWhatsApp" => r.returned >= 1
              /\ probe.op = "getHistory" => r.returned = << >>
              /\ probe.op = "getConversationContext" =>
                    r.returned.messages = << >> /\ ~r.returned.hasHistory
              /\ probe.op = "getConversationStats" => r.returned = NoStats
              /\ probe.op = "clearHistory" => r.returned /\ conversationsIn(r.file) = << >>
        /\ probe.op = "addMessage" /\ r.returned # << >> =>
              /\ r.file.shape = "versioned"
              /\ {"metadata", "conversations"} \subseteq DOMAIN r.file
              /\ r.file.metadata.version = "2.0"
              /\ r.file.metadata.lastUpdated = now
              /\ phoneNumber \in DOMAIN r.file.conversations
              /\ \E i \in DOMAIN r.file.conversations[phoneNumber].messages :
                    r.file.conversations[phoneNumber].messages[i] = r.returned[1]

\* a query found a file that cannot be parsed and left it so, and the addMessage
\* that followed wrote a document with the one message
C29_Witness ==
    /\ probe.op = "addMessage"
    /\ probe.args[1] = CorruptFile
    /\ probe.args[3] = 2
    /\ probe.result.file.shape = "versioned"
    /\ Len(probe.result.file.conversations["51"].messages) = 1
    /\ probe.result.file.conversations["51"].stats.totalMessages = 1

\* the file before and after a migration agree on the messages of every contact:
\* as many, in the same order, 'me' become outgoing and anything else incoming
sameMessages(before, after) ==
    /\ after.shape = "versioned"
    /\ DOMAIN after.conversations = DOMAIN before.entries
    /\ \A k \in DOMAIN before.entries :
          /\ Len(after.conversations[k].messages) = Len(before.entries[k])
          /\ \A i \in DOMAIN before.entries[k] :
                /\ after.conversations[k].messages[i].body = before.entries[k][i].body
                /\ after.conversations[k].messages[i].timestamp = before.entries[k][i].timestamp
                /\ after.conversations[k].messages[i].from =
                       IF before.entries[k][i].from = "me" THEN "outgoing" ELSE "incoming"

\* the stats reported for every conversation of the file agree with its messages
statsAgree(file) ==
    \A k \in DOMAIN file.conversations :
        LET reported == getConversationStats(file, k, now).returned
            messages == file.conversations[k].messages
        IN  /\ reported.totalMessages = Len(messages)
            /\ reported.incomingMessages = countOf(messages, isIncoming)
            /\ reported.outgoingMessages = countOf(messages, isOutgoing)
            /\ reported.hasHistory = (Len(messages) > 0)

\* C30: migrating a document of the flat shape yields, for every contact key, a
\* conversation with as many messages in the same order, from 'me' mapped to
\* outgoing and anything else to incoming; the migration of a versioned document
\* changes nothing; and after the migration the stats reported for each
\* conversation agree with its messages.
C30_MigrationKeepsMessagesAndStats ==
    probe.op = "initializeStorage" =>
        /\ probe.args[1].shape = "flat" =>
              sameMessages(probe.args[1], probe.result.file) /\ statsAgree(probe.result.file)
        /\ probe.args[1].shape = "versioned" => probe.result.file = probe.args[1]

----------------------------------------------------------------------------
(* The manual triggers of a cycle and what they answer *)

\* C40: a cycle started by POST /send-auto-message or POST /send-auto-voice is
\* answered with success only when the cycle has sent a message and recorded it: a
\* cycle skipped at the readiness guard is not answered as a successful send.
C40_ManualSuccessOnlyAfterSend ==
    \A h \in Cycles :
        (/\ cycle[h].pc = "Idle"
         /\ cycle[h].trigger = "manual"
         /\ cycle[h].result.response = "200") => cycle[h].result.kind = "sent"

----------------------------------------------------------------------------
(* The record a sending cycle leaves *)

\* the step with which cycle h, having sent its message, returns to Idle
recordsSend(h) ==
    /\ cycle[h].pc = "Recording"
    /\ cycle'[h].pc = "Idle"
    /\ cycle'[h].result.kind = "sent"

\* C32: every cycle that has sent a message appends one outgoing record with the
\* message's body to the target's conversation before it returns to Idle, also when
\* the same text was sent less than 5 seconds earlier, so the sent counters never
\* count a send without a stored record.
C32_EverySendLeavesItsRecord ==
    [][\A h \in Cycles : recordsSend(h) =>
          LET conversationBefore == conversationOf(store, targetPhoneNumber)
              conversationAfter == conversationOf(store', targetPhoneNumber)
          IN  /\ conversationAfter.stats.totalMessages
                    = conversationBefore.stats.totalMessages + 1
              /\ \E i \in DOMAIN conversationAfter.messages :
                    /\ conversationAfter.messages[i].from = "outgoing"
                    /\ conversationAfter.messages[i].source = "system"
                    /\ conversationAfter.messages[i].body
                          = sentMessageData(cycle[h].message, h = "voice", cycle[h].ref).body]_vars

----------------------------------------------------------------------------
(* The manual send routes: POST /send-message, POST /send-voice-message *)

\* the third argument the routes hand to addMessage, which takes it as fromWhatsApp
fromWhatsAppOfRoutes == "me"

\* the second argument the routes hand to addMessage is the text itself, a string:
\* the fields normalizeMessage reads from it (id, body, fromMe, timestamp, type) are
\* undefined whatever the text is
stringAsMessageData(text) ==
    [id |-> NoId, body |-> "", fromMe |-> FALSE, timestamp |-> NullTimestamp, type |-> ""]

\* addMessage for a normalized message whose timestamp is undefined * 1000, NaN:
\* Math.abs(msg.timestamp - NaN) < timeWindow is false for every stored message and
\* the message carries no id, so it is never a duplicate; NaN < stats.firstMessage
\* and NaN > stats.lastMessage are false; the comparator of the sort returns NaN for
\* it, which counts as 0, so the pushed message stays last; writeJson writes the
\* timestamp as null
addUnstamped(conversation, normalizedMessage) ==
    LET kept == trimMessages(Append(conversation.messages, normalizedMessage))
        st == conversation.stats
    IN  [conversation |->
            [messages |-> Append(sortByTimestamp(SubSeq(kept, 1, Len(kept) - 1)),
                                 normalizedMessage),
             stats |-> [st EXCEPT !.totalMessages = @ + 1,
                                  !.incomingMessages =
                                      @ + (IF normalizedMessage.from = "incoming" THEN 1 ELSE 0),
                                  !.outgoingMessages =
                                      @ + (IF normalizedMessage.from = "incoming" THEN 0 ELSE 1)]],
         added |-> TRUE]

\* conversationHistory.addMessage(targetPhone, messageData, 'me') as the routes call it
addMessageOfRoutes(conversation, messageData, dateNow) ==
    LET normalizedMessage == normalizeMessage(messageData, truthy(fromWhatsAppOfRoutes), dateNow)
    IN  IF normalizedMessage.timestamp = NullTimestamp
        THEN addUnstamped(conversation, normalizedMessage)
        ELSE addToConversation(conversation, normalizedMessage)

\* the route from the send to the answer; text is the message of the request and
\* recorded the string handed to addMessage
sendManually(text, recorded, voice) ==
    LET r == addMessageOfRoutes(conversationOf(store, targetPhoneNumber),
                                stringAsMessageData(recorded), now)
    IN  /\ isReady
        /\ Len(chat) < MaxChat
        /\ r.conversation.stats.totalMessages <= MaxTotal
        /\ chat' = Append(chat, RawMessage(serializedId(Len(chat) + 1),
                                           IF voice THEN "" ELSE text, TRUE, now \div 1000,
                                           IF voice THEN "ptt" ELSE "chat"))
        /\ store' = withConversation(store, targetPhoneNumber, r.conversation)
        /\ stats' = IF voice THEN [stats EXCEPT !.voiceMessagesSent = @ + 1]
                    ELSE [stats EXCEPT !.messagesSent = @ + 1]
        /\ lastSent' = [lastSent EXCEPT ![IF voice THEN "voice" ELSE "text"] = text]
        /\ sendLog' = Append(sendLog, recorded)
        /\ UNCHANGED <<now, unrecorded, targetPhoneNumber, calls, isReady, cycle,
                       cyclesBegun, schedVars>>

\* POST /send-message { message }
PostSendMessage(message) == sendManually(message, message, FALSE)

\* POST /send-voice-message { message }, the voice generated
PostSendVoiceMessage(message) == sendManually(message, VoiceBody(message), TRUE)

\* the store with the manual routes, the incoming messages and the cycles' calls
NextManual ==
    \/ Tick
    \/ SetReady(TRUE)
    \/ \E body \in Texts : Receive(body)
    \/ \E text \in Texts, voice \in BOOLEAN : Send(text, voice)
    \/ \E i \in DOMAIN chat : AddMessage(i)
    \/ SyncFromWhatsApp(getMessages(MaxLimit))
    \/ \E sent \in unrecorded : MarkMessageSent(sent)
    \/ \E message \in Texts : PostSendMessage(message)
    \/ \E message \in Texts : PostSendVoiceMessage(message)

SpecManual == Init /\ [][NextManual]_vars

\* the step of a manual send route
sentManually ==
    /\ sendLog' # sendLog
    /\ Len(sendLog') = Len(sendLog) + 1

\* C33: a message sent through POST /send-message or POST /send-voice-message is
\* recorded in the store as a system-originated outgoing message with the sent body
\* and the time of recording as its timestamp.
C33_ManualSendIsRecordedAsSent ==
    [][sentManually =>
          LET messages == conversationOf(store', targetPhoneNumber).messages
          IN  \E i \in DOMAIN messages :
                 /\ messages[i].source = "system"
                 /\ messages[i].from = "outgoing"
                 /\ messages[i].body = sendLog'[Len(sendLog')]
                 /\ messages[i].timestamp = now]_vars

----------------------------------------------------------------------------
(* What the stored conversations look like at every moment *)

\* C34: no two stored messages of a conversation carry the same non-null external
\* id, and no two stored messages of a conversation have the same body and direction
\* with timestamps less than 5000 ms apart.
C34_NoTwoStoredDuplicates ==
    \A k \in DOMAIN store :
        LET messages == store[k].messages
        IN  \A i, j \in DOMAIN messages :
               i < j =>
                  /\ messages[i].messageId # NoId =>
                        messages[i].messageId # messages[j].messageId
                  /\ ~ /\ messages[i].body = messages[j].body
                       /\ messages[i].from = messages[j].from
                       /\ Abs(messages[i].timestamp - messages[j].timestamp) < 5000

\* C35: an external message whose id differs from every stored id is stored: the
\* (body, direction, 5 s) rule decides only for messages without an external id, so
\* two distinct external messages with the same body and direction less than 5 s
\* apart are both retained by syncFromWhatsApp.
C35_NewExternalIdIsStored ==
    \A i \in DOMAIN chat :
        LET messages == conversationOf(store, targetPhoneNumber).messages
            newMessage == normalizeMessage(chat[i], TRUE, now)
        IN  (\A j \in DOMAIN messages : messages[j].messageId # newMessage.messageId)
                => ~isDuplicateMessage(messages, newMessage)

\* C36: after any sequence of addMessage, syncFromWhatsApp and markMessageSent calls
\* the stored messages of every conversation are in non-decreasing timestamp order
\* and every stored timestamp is a number in epoch milliseconds.
C36_StoredInTimestampOrder ==
    \A k \in DOMAIN store :
        LET messages == store[k].messages
        IN  /\ \A i \in DOMAIN messages : messages[i].timestamp # NullTimestamp
            /\ \A i, j \in DOMAIN messages :
                  i < j => messages[i].timestamp <= messages[j].timestamp

----------------------------------------------------------------------------
(* The store file with the conversations of two contacts *)

\* a second contact of the store, whose conversation the calls are not about
OtherContact == "52"

\* clearHistory() is called without a contact key
NoContact == ""

\* versioned files that hold a conversation of the second contact next to what
\* they hold for the first
SharedFiles ==
    {[emptyDocument(TickMs) EXCEPT !.conversations =
          withConversation(conversations, OtherContact, other[OtherContact])] :
        conversations \in ProbeStores,
        other \in {[k \in {OtherContact} |->
                       [messages |-> storedWindow(directions),
                        stats |-> countStats(storedWindow(directions))]] :
                   directions \in seqsUpTo(ProbeDirections, maxStoredMessages) \ {<< >>}}}

\* an operation during which readJson throws although the file exists (the file is
\* being written, or cannot be opened): loadHistory's catch hands the operation an
\* empty document, and the file is what the operation saves, or what it was when the
\* operation saves nothing
storeCallUnread(op, file, phoneNumber, dateNow) ==
    LET r == storeCall(op, CorruptFile, phoneNumber, dateNow)
    IN  [file |-> IF r.file = CorruptFile THEN file ELSE r.file, returned |-> r.returned]

\* the operations that write the file
WritingOps == {"addMessage", "syncFromWhatsApp", "markMessageSent", "clearHistory"}

\* an operation on the file; readFails tells whether its reads of the file fail
SharedStoreCall(op, phoneNumber, readFails) ==
    /\ probe.op # "none"
    /\ probe' = [op |-> op,
                 args |-> <<probe.result.file, phoneNumber, probe.args[3] + 1, readFails>>,
                 result |-> IF readFails
                            THEN storeCallUnread(op, probe.result.file, phoneNumber, now)
                            ELSE storeCall(op, probe.result.file, phoneNumber, now)]
    /\ UNCHANGED <<storeVars, cycleVars, clock, timers, jobs, isRunning, escaped, bootVars>>

NextShared ==
    /\ IF probe.op = "none" THEN TRUE ELSE probe.args[3] < MaxCalls
    /\ \/ \E file \in SharedFiles : FindFile(file)
       \/ \E op \in WritingOps, readFails \in BOOLEAN : SharedStoreCall(op, "51", readFails)
       \/ \E readFails \in BOOLEAN : SharedStoreCall("clearHistory", NoContact, readFails)

SpecShared == Init /\ [][NextShared]_vars

\* C37: addMessage, syncFromWhatsApp, markMessageSent and clearHistory(k) leave the
\* conversations of all other contacts as they were, also when reading the store
\* file fails during the call; clearHistory() without a key removes all
\* conversations and keeps the metadata.
C37_OtherConversationsUnchanged ==
    probe.op \in WritingOps =>
        LET before == probe.args[1]
            after == probe.result.file
        IN  IF truthy(probe.args[2])
            THEN \A k \in DOMAIN before.conversations \ {probe.args[2]} :
                    /\ k \in DOMAIN after.conversations
                    /\ after.conversations[k] = before.conversations[k]
            ELSE /\ after.conversations = << >>
                 /\ after.metadata.version = before.metadata.version
                 /\ after.metadata.created = before.metadata.created

----------------------------------------------------------------------------
(* The start of the process: the readiness poll and initializeAutomation *)

\* number of tasks cron.schedule creates in a run of the process
MaxTasks == 4

\* the environments of a deployment: each key set or not; an interval left at its
\* default (parseInt(...) || 10 for a value unset, 0 or no number) or the integer
\* configured, which parseInt keeps when it is negative
Environments ==
    [OPENAI_API_KEY : BOOLEAN, ELEVENLABS_API_KEY : BOOLEAN,
     messageInterval : {messageInterval, 1, -5}, voiceInterval : {voiceInterval, -5}]

\* the process starts: the module reads the environment and initializeWhatsApp arms
\* the timer of checkWhatsAppReady
StartApp(environment) ==
    /\ readinessPoll = "unset"
    /\ env' = environment
    /\ readinessPoll' = "armed"
    /\ UNCHANGED <<storeVars, cycleVars, clock, timers, jobs, isRunning, escaped, probe,
                   isAutomationInitialized>>

\* the intervals the process schedules in a run: the configured ones that can be
\* scheduled and those of the requests to /schedule/update
ScheduledIntervals == {1, 5, messageInterval, 60, voiceInterval}

\* secondsToCronExpression and the pattern of its expression, for each of them
scheduleOf ==
    [seconds \in ScheduledIntervals |->
        [expression |-> secondsToCronExpression(seconds),
         pattern |-> cronPattern(secondsToCronExpression(seconds))]]

\* cron.schedule(secondsToCronExpression(seconds), task, { scheduled: false })
newJob(name, seconds) ==
    taskOf(name, seconds, scheduleOf[seconds].expression, scheduleOf[seconds].pattern)

historySyncPattern == cronPattern("0 2 * * *")

\* scheduleHistorySync: cron.schedule('0 2 * * *', ...) under the name historySync
historySyncJob == taskOf("historySync", 86400, "0 2 * * *", historySyncPattern)

\* a poll that gives up when it finds the channel not ready
givesUp == "ended"

\* setTimeout(checkWhatsAppReady, 2000)
checksAgain == "armed"

\* initializeAutomation() on the primary service: what it leaves behind. A missing
\* key returns false before anything is created; an interval below 1 throws in
\* secondsToCronExpression, the catch returns false and the jobs set so far stay in
\* the new scheduler, not started.
initializeAutomation ==
    LET autoJob == newJob("autoMessages", env.messageInterval)
        voiceJob == newJob("voiceMessages", env.voiceInterval)
        created == <<autoJob>> \o (IF env.ELEVENLABS_API_KEY THEN <<voiceJob>> ELSE << >>)
                       \o <<historySyncJob>>
        registry(tasks) == [name \in {tasks[i].name : i \in DOMAIN tasks} |->
                               Len(timers) + (CHOOSE i \in DOMAIN tasks : tasks[i].name = name)]
        failed(tasks) == [timers |-> timers \o tasks, jobs |-> registry(tasks),
                          isRunning |-> FALSE, initialized |-> FALSE]
    IN  IF ~env.OPENAI_API_KEY \/ ~truthy(targetPhoneNumber)
        THEN [timers |-> timers, jobs |-> jobs, isRunning |-> isRunning, initialized |-> FALSE]
        ELSE IF env.messageInterval < 1 THEN failed(<< >>)
        ELSE IF env.ELEVENLABS_API_KEY /\ env.voiceInterval < 1 THEN failed(<<autoJob>>)
        ELSE [timers |-> timers \o [i \in DOMAIN created |-> started(created[i])],
              jobs |-> registry(created), isRunning |-> TRUE, initialized |-> TRUE]

\* checkWhatsAppReady: with the channel ready it awaits initializeAutomation and sets
\* no further timer, whatever the call returns; otherwise it checks again
CheckWhatsAppReady ==
    /\ readinessPoll = "armed"
    /\ IF serviceReady /\ ~isAutomationInitialized
       THEN /\ timers' = initializeAutomation.timers
            /\ jobs' = initializeAutomation.jobs
            /\ isRunning' = initializeAutomation.isRunning
            /\ isAutomationInitialized' = initializeAutomation.initialized
            /\ readinessPoll' = "ended"
       ELSE /\ readinessPoll' = IF ~isAutomationInitialized THEN checksAgain ELSE "ended"
            /\ UNCHANGED <<timers, jobs, isRunning, isAutomationInitialized>>
    /\ UNCHANGED <<storeVars, cycleVars, clock, escaped, probe, env>>

NextBoot ==
    \/ \E environment \in Environments : StartApp(environment)
    \/ \E ready \in BOOLEAN : SetReady(ready)
    \/ CheckWhatsAppReady

\* the process does start, and a timer that is armed does fire
SpecBoot ==
    /\ Init
    /\ [][NextBoot]_vars
    /\ WF_vars(\E environment \in Environments : StartApp(environment))
    /\ WF_vars(CheckWhatsAppReady)

\* the keys are set and the configured intervals can be scheduled
schedulableEnvironment ==
    /\ env.OPENAI_API_KEY
    /\ truthy(targetPhoneNumber)
    /\ env.messageInterval >= 1
    /\ env.ELEVENLABS_API_KEY => env.voiceInterval >= 1

automaticMessagingBegun == isAutomationInitialized /\ taskRuns("autoMessages")

\* C31: if the channel becomes ready and remains ready, the API key and the target
\* number are configured and the configured intervals are at least 1 second, then
\* under fair execution of the readiness poll automation is eventually initialized
\* and the automatic text-message job registered and started.
C31_ReadyChannelGetsAutomation ==
    <>[](isReady /\ schedulableEnvironment) => <>automaticMessagingBegun

\* C31 as stated: the channel ready for good, the API key and the target number
\* configured, and automatic messaging eventually begins.
C31_AsStated ==
    <>[](isReady /\ env.OPENAI_API_KEY /\ truthy(targetPhoneNumber))
        => <>automaticMessagingBegun

\* the poll has found the channel ready with the default intervals configured and
\* initializeAutomation has scheduled and started the text and the voice job
C31_Witness ==
    /\ isReady
    /\ readinessPoll = "ended"
    /\ isAutomationInitialized
    /\ isRunning
    /\ taskRuns("autoMessages")
    /\ taskRuns("voiceMessages")
    /\ timers[jobs["autoMessages"]].expression = "*/10 * * * * *"

----------------------------------------------------------------------------
(* The schedule routes: POST /schedule/update, /schedule/start, /schedule/stop *)

\* what a request to /schedule/update may carry as intervalSeconds: nothing, an
\* integer, the fraction 1.5, the text 'abc'
UpdateBodies ==
    {[kind |-> "missing", value |-> 0], [kind |-> "fraction", value |-> 1],
     [kind |-> "text", value |-> 0]}
        \cup {[kind |-> "integer", value |-> v] : v \in {-5, 0, 5, 60}}

\* !intervalSeconds || intervalSeconds < 1: 1.5 is neither, and for 'abc' the
\* comparison is with NaN and false
rejected(body) == body.kind = "missing" \/ (body.kind = "integer" /\ body.value < 1)

\* cron.schedule takes the expression built for the interval: it throws for
\* '*/1.5 * * * * *' and for '0 */NaN * * * *', whose fields are no cron fields
accepted(body) == body.kind = "integer" /\ body.value >= 1

\* cronScheduler is set: initializeAutomation has come past the checks of the keys
schedulerAvailable ==
    readinessPoll = "ended" /\ env.OPENAI_API_KEY /\ truthy(targetPhoneNumber)

\* the answers of the routes
Answered(route, args, status) == [op |-> route, args |-> args, result |-> status]

\* POST /schedule/update: 400 for a rejected interval, 503 without a scheduler;
\* then removeJob('autoMessages'), scheduleAutoMessages(intervalSeconds, ...), whose
\* error is answered 500, and startJob('autoMessages')
PostScheduleUpdate(body) ==
    LET status == IF rejected(body) THEN "400"
                  ELSE IF ~schedulerAvailable THEN "503"
                  ELSE IF ~accepted(body) THEN "500" ELSE "200"
        removed == IF "autoMessages" \in DOMAIN jobs
                   THEN [timers EXCEPT ![jobs["autoMessages"]] = destroyed(stopped(@))]
                   ELSE timers
    IN  /\ Len(timers) < MaxTasks
        /\ probe' = Answered("POST /schedule/update", <<body>>, status)
        /\ timers' = IF status \in {"400", "503"} THEN timers
                     ELSE IF status = "500" THEN removed
                     ELSE Append(removed, started(newJob("autoMessages", body.value)))
        /\ jobs' = IF status \in {"400", "503"} THEN jobs
                   ELSE IF status = "500"
                   THEN [k \in DOMAIN jobs \ {"autoMessages"} |-> jobs[k]]
                   ELSE setJob("autoMessages", Len(timers) + 1)
        /\ UNCHANGED <<storeVars, cycleVars, clock, isRunning, escaped, bootVars>>

\* the route answers 503 without a scheduler; with one, the registered task is
\* left as the call of the scheduler leaves it, and the answer is a success
routeJob(route, changed) ==
    /\ probe' = Answered(route, << >>, IF schedulerAvailable THEN "200" ELSE "503")
    /\ timers' = IF schedulerAvailable THEN changed ELSE timers
    /\ UNCHANGED <<storeVars, cycleVars, clock, jobs, isRunning, escaped, bootVars>>

\* POST /schedule/start: cronScheduler.startJob('autoMessages')
PostScheduleStart ==
    routeJob("POST /schedule/start",
             IF "autoMessages" \in DOMAIN jobs
             THEN [timers EXCEPT ![jobs["autoMessages"]] = started(@)] ELSE timers)

\* POST /schedule/stop: cronScheduler.stopJob('autoMessages')
PostScheduleStop ==
    routeJob("POST /schedule/stop",
             IF "autoMessages" \in DOMAIN jobs
             THEN [timers EXCEPT ![jobs["autoMessages"]] = stopped(@)] ELSE timers)

\* the process from its start, the jobs firing and the schedule routes
NextRoutes ==
    \/ \E environment \in Environments : StartApp(environment)
    \/ \E ready \in BOOLEAN : SetReady(ready)
    \/ CheckWhatsAppReady
    \/ \E body \in UpdateBodies : PostScheduleUpdate(body)
    \/ PostScheduleStart
    \/ PostScheduleStop
    \/ FireCycle("autoMessages", "text")
    \/ FireCycle("voiceMessages", "voice")

SpecRoutes == Init /\ [][NextRoutes]_vars

\* the tasks named autoMessages that watch the clock
runningAutoMessages ==
    {i \in DOMAIN timers : timers[i].name = "autoMessages" /\ timers[i].running}

\* C38: a request to /schedule/update whose interval is missing, below 1 or cannot be
\* turned into a valid timer specification is answered with an error and leaves the
\* registered autoMessages job registered and running with its interval; a valid
\* interval leaves exactly one running autoMessages job, with the new interval.
C38_FailedUpdateKeepsTheJob ==
    [][\A body \in UpdateBodies :
          PostScheduleUpdate(body) =>
              IF accepted(body) /\ schedulerAvailable
              THEN /\ probe'.result = "200"
                   /\ Cardinality(runningAutoMessages') = 1
                   /\ \A i \in runningAutoMessages' :
                         /\ timers'[i].intervalSeconds = body.value
                         /\ jobs'["autoMessages"] = i
              ELSE /\ probe'.result # "200"
                   /\ timers' = timers
                   /\ jobs' = jobs]_vars

\* C39: once /schedule/stop has been answered with success, no scheduled cycle of
\* any message type begins until /schedule/start is requested.
C39_StopHoldsAllScheduledCycles ==
    [][(probe.op = "POST /schedule/stop" /\ probe.result = "200")
          => cyclesBegun' = cyclesBegun]_vars

====
